---- MODULE Spec2Model ----
(***************************************************************************)
(* A model of dunebot's scheduled execution and delivery pipeline:         *)
(*   bot/services/scheduler.py   ScheduledQueryRunner                      *)
(*   bot/commands/dune_queries.py DuneCommands                             *)
(*                                                                         *)
(* The scheduler's timer loop is an asyncio task.  A task runs without     *)
(* interruption from one await to the next, so every action of a task is   *)
(* "resume at an await with an outcome, run to the next await".  A task is *)
(* at an await ("new", "sleep", "query", "send_*", "delay", "sums_query"), *)
(* at a position between two awaits that the model splits a long           *)
(* synchronous run at ("loop", "woke"), or "done".  start() and stop() are *)
(* synchronous calls made by other coroutines of the same event loop, so   *)
(* they happen only while every task is at an await.  The event loop runs  *)
(* what is ready in FIFO order, so the CancelledError of a cancelled task  *)
(* is thrown before a task created after the cancel() first runs.          *)
(*                                                                         *)
(* Time is the naive local datetime of datetime.now(), in whole seconds.   *)
(*                                                                         *)
(* The command handlers share no state with the runner (each call builds   *)
(* its own result and sends to its own interaction), so a run of the model *)
(* has either the runner (a scheduled query is configured) or the slash    *)
(* commands, not their interleavings.                                      *)
(***************************************************************************)
EXTENDS Integers, Sequences, FiniteSets, TLC

\* ------------------------------------------------------------------ bounds
MaxUnits == 3      \* most display units (rows) one query result yields
MaxTasks == 2      \* most timer-loop tasks start() creates in one run
MaxFires == 2      \* most fire steps in one run
MaxDay   == 1      \* the clock's samples cover days 0..MaxDay
MaxCalls == 2      \* most direct DuneClient calls in one run
MaxRows  == 2      \* most rows of a QueryResult handed to the formatter

\* ------------------------------------------------------- program constants
DaySeconds    == 86400   \* timedelta(days=1)
HourSeconds   == 3600    \* time(hour, minute)
MinuteSeconds == 60      \* time(hour, minute)
HoursPerDay   == 24
MinutesPerHour == 60
QueryTimeout  == 60      \* timeout=60
MsgTimeoutHint == 1      \* "The query timed out. ... Try again later or check ..."
MsgUnderlying  == 2      \* str(e)
MsgGeneric     == 3      \* "An unexpected error occurred. Please try again later."
PrefixFailed   == 1      \* f"Query {query_id} failed: {str(e)}"
PrefixTimedOut == 2      \* f"Query {query_id} timed out after {timeout} seconds"
PrefixLatest   == 3      \* f"Failed to get latest results for query {query_id}: {str(e)}"
MsgBase        == 10     \* a message is its prefix and the str(e) it embeds
DefaultDelay  == 10      \* embed_delay_seconds: int = 10

None == -1               \* Python's None for an optional int / datetime

\* ------------------------------------------------------------------- state
VARIABLES
    running,              \* ScheduledQueryRunner._running
    task,                 \* ScheduledQueryRunner._task: index into tasks, 0 = None
    tasks,                \* every asyncio task start() created, in creation order
    last_execution,       \* ScheduledQueryRunner._last_execution
    next_execution,       \* ScheduledQueryRunner._next_execution
    query_id,             \* ScheduledQueryRunner.query_id
    sums_query_id,        \* ScheduledQueryRunner.sums_query_id
    embed_delay_seconds,  \* ScheduledQueryRunner.embed_delay_seconds
    execution_hour,       \* ScheduledQueryRunner.execution_hour
    execution_minute,     \* ScheduledQueryRunner.execution_minute
    now,                  \* datetime.now()
    scheduled,            \* the settings configure a scheduled query
    cmd,                  \* the slash command being handled
    result,               \* the QueryResult handed to the formatter
    embeds,               \* the embeds the formatter returned last
    status,               \* the dict get_status() returned last
    log,                  \* what the fire step in progress (or just returned,
                          \* or the command being handled) has done, in order
    fires                 \* number of fire steps begun

vars == <<running, task, tasks, last_execution, next_execution, query_id,
          sums_query_id, embed_delay_seconds, execution_hour, execution_minute,
          now, log, fires, scheduled, cmd, result, embeds, status>>

config == <<query_id, sums_query_id, embed_delay_seconds, execution_hour,
            execution_minute>>

\* The fields of the runner object that start() and stop() read or write.
Runner == [running |-> running, task |-> task, tasks |-> tasks]

\* ----------------------------------------------------------------- events
\* One entry of the log: a call a fire step made or the outcome it got.
Ev(e, k, a, b, t) == [ev |-> e, kind |-> k, a |-> a, b |-> b, t |-> t]

\* where = 1: the lookup that opens the fire step; 2: the error handler's.
EvResolve(found, where, t) ==
    Ev("resolve", IF found THEN "found" ELSE "none", where, 0, t)
EvQuery(qid, t)     == Ev("query", "call", qid, QueryTimeout, t)
EvQueryRet(out, n, t) == Ev("query_ret", out, n, 0, t)
EvFormat(out, n, t) == Ev("format", out, n, 0, t)
EvSend(k, a, b, t)  == Ev("send", k, a, b, t)
EvSendRet(out, t)   == Ev("send_ret", out, 0, 0, t)
EvWait(d, t)        == Ev("wait", "sleep", d, 0, t)
EvCompleted(n, t)   == Ev("completed", "primary", n, 0, t)

\* Mutant of CalcNext: `<` for `<=`, the configured instant itself counts as
\* still to come.
CalcNext_Strict(t, hour, minute) ==
    LET today == (t \div DaySeconds) * DaySeconds
        next  == today + hour * HourSeconds + minute * MinuteSeconds
    IN  IF next < t THEN next + DaySeconds ELSE next

\* ------------------------------------------------------------------- clock
\* _calculate_next_execution: today's occurrence of the configured time, or
\* tomorrow's when today's is not after `t`.
CalcNext(t, hour, minute) ==
    LET today == (t \div DaySeconds) * DaySeconds
        next  == today + hour * HourSeconds + minute * MinuteSeconds
    IN  IF next <= t THEN next + DaySeconds ELSE next

ExecSeconds == execution_hour * HourSeconds + execution_minute * MinuteSeconds

\* The instants the clock is sampled at after construction: the configured
\* time of each day.
Instants == { d * DaySeconds + ExecSeconds : d \in 0..MaxDay }

\* The clock when the runner is constructed: one second before the configured
\* time of day 0 (if there is one), or at it.
InitNows == { x \in {ExecSeconds - 1, ExecSeconds} : x >= 0 }

\* ----------------------------------------------------------------- tasks
AwaitPcs == {"new", "sleep", "query", "send_notice", "send_unit", "delay",
             "send_single", "send_err", "sums_query", "send_sums",
             "send_sums_err"}
FirePcs  == AwaitPcs \ {"new", "sleep"}

\* must_cancel: Task.cancel() was called and CancelledError is not yet thrown.
\* stopped: stop() was called on the task before it had finished (history).
\* n, i: len(embeds) and the loop index of the delivery in progress.
\* wake: the instant the pending asyncio.sleep(wait_seconds) ends at.
NewTask == [pc |-> "new", must_cancel |-> FALSE, stopped |-> FALSE,
            n |-> 0, i |-> 0, wake |-> None]

TaskIds == 1..Len(tasks)

\* No task is in the middle of a synchronous run: another coroutine may run.
Quiet == \A t \in TaskIds : tasks[t].pc \in AwaitPcs \cup {"done"}

Resumable(t, pc) ==
    /\ t \in TaskIds
    /\ tasks[t].pc = pc
    /\ ~tasks[t].must_cancel

SetTask(t, r) == [tasks EXCEPT ![t] = r]
At(t, pc)     == [tasks[t] EXCEPT !.pc = pc]
\* Task t at pc with the locals of the fire step it leaves out of scope.
Left(r, pc)   == [r EXCEPT !.pc = pc, !.n = 0, !.i = 0, !.wake = None]
Ended(t, pc)  == Left(tasks[t], pc)

\* ------------------------------------------------------------------ inputs
QueryIds  == {1}                     \* configured primary query ids
SumsIds   == {3}                     \* configured summary query ids
QueryErrors == {"Failure", "Timeout", "Other"}
SendOutcomes == {"ok", "fail"}

\* The command handler's position: name is the command, n and i the
\* delivery's len(embeds) and loop index.
IdleCmd == [pc |-> "idle", name |-> "none", qid |-> 0, n |-> 0, i |-> 0]
CmdNames == {"dune", "dune_latest"}
CmdQueryIds == {7}                   \* query ids users pass to the commands

\* Python's None where a str is expected.
NoneStr == "<None>"

\* No QueryResult has been handed to the formatter.
NoResult == [query_id |-> 0, rows |-> <<>>]

\* get_status() has not been called.
NoStatus == [query_id |-> NoneStr, last_execution |-> NoneStr,
             next_execution |-> NoneStr, running |-> NoneStr]

\* ScheduledQueryRunner.__init__: idle, no task, never fired.
Init ==
    LET
        Delays    == {0, DefaultDelay}       \* configured delays between units
        ExecTimes == {<<0, 0>>, <<14, 30>>}  \* configured (hour, minute)
    IN
    /\ running = FALSE
    /\ task = 0
    /\ tasks = <<>>
    /\ last_execution = None
    /\ next_execution = None
    /\ query_id \in QueryIds
    /\ sums_query_id \in {None} \cup SumsIds
    /\ embed_delay_seconds \in Delays
    /\ \E hm \in ExecTimes : execution_hour = hm[1] /\ execution_minute = hm[2]
    /\ now \in InitNows
    /\ log = <<>>
    /\ fires = 0
    /\ scheduled \in BOOLEAN
    /\ ~scheduled =>       \* no runner is built: its settings are the defaults
          /\ sums_query_id = None
          /\ execution_hour = 0 /\ execution_minute = 0
    /\ cmd = IdleCmd
    /\ result = NoResult
    /\ embeds = <<>>
    /\ status = NoStatus

\* ------------------------------------------------------- start() and stop()
\* Mutant of AlreadyRunning: start() does not look at the running flag.
AlreadyRunning_Never(s) == FALSE

\* `if self._running:` of start()
AlreadyRunning(s) == s.running

\* start() on the runner fields s: nothing when already running, otherwise
\* running and one new task, which self._task now names.
StartEffect(s) ==
    IF AlreadyRunning(s) THEN s
    ELSE [running |-> TRUE,
          tasks   |-> Append(s.tasks, NewTask),
          task    |-> Len(s.tasks) + 1]

Start ==
    /\ scheduled
    /\ Quiet
    /\ running \/ Len(tasks) < MaxTasks
    /\ running' = StartEffect(Runner).running
    /\ task' = StartEffect(Runner).task
    /\ tasks' = StartEffect(Runner).tasks
    /\ UNCHANGED <<last_execution, next_execution, config, now, log, fires,
                   scheduled, cmd, result, embeds, status>>

\* Mutant of CancelTask: stop() clears the flag and leaves the task alone.
CancelTask_Skip(r) == r

\* Task.cancel(): nothing on a finished task; otherwise CancelledError is
\* thrown into the coroutine at its pending await when the task next runs.
CancelTask(r) ==
    IF r.pc = "done" THEN r ELSE [r EXCEPT !.must_cancel = TRUE]

\* stop() on the runner fields s: not running, and self._task, if any,
\* cancelled.
StopEffect(s) ==
    LET
        \* The history field `stopped` of the task stop() is called on.
        MarkStopped(r, was) ==
            IF was.pc = "done" THEN r ELSE [r EXCEPT !.stopped = TRUE]
    IN
    [running |-> FALSE,
     task    |-> s.task,
     tasks   |-> IF s.task = 0 THEN s.tasks
                 ELSE [s.tasks EXCEPT
                         ![s.task] = MarkStopped(CancelTask(s.tasks[s.task]),
                                                 s.tasks[s.task])]]

Stop ==
    /\ scheduled
    /\ Quiet
    /\ running' = StopEffect(Runner).running
    /\ task' = StopEffect(Runner).task
    /\ tasks' = StopEffect(Runner).tasks
    /\ UNCHANGED <<last_execution, next_execution, config, now, log, fires,
                   scheduled, cmd, result, embeds, status>>

\* ------------------------------------------------------------ _run_scheduler
\* The task's first run: the coroutine enters `while self._running`.
TaskBegin(t) ==
    /\ Resumable(t, "new")
    /\ \A u \in 1..(t - 1) : ~tasks[u].must_cancel
    /\ tasks' = SetTask(t, At(t, "loop"))
    /\ UNCHANGED <<running, task, last_execution, next_execution, config, now,
                   log, fires, scheduled, cmd, result, embeds, status>>

\* CancelledError thrown at the pending await.  Nothing in _execute_query or
\* _execute_sums_query catches it (`except Exception` does not), so it reaches
\* `except asyncio.CancelledError` of _run_scheduler and the task ends.
CancelDelivered(t) ==
    /\ t \in TaskIds
    /\ tasks[t].must_cancel
    /\ tasks[t].pc \in AwaitPcs
    /\ tasks' = SetTask(t, [Ended(t, "done") EXCEPT !.must_cancel = FALSE])
    /\ log' = <<>>
    /\ UNCHANGED <<running, task, last_execution, next_execution, config, now,
                   fires, scheduled, cmd, result, embeds, status>>

\* One pass of the loop head: the `while` test, _calculate_next_execution,
\* wait_seconds from a second datetime.now(), and `if wait_seconds > 0`.
LoopIter(t) ==
    LET
        \* The instants datetime.now() may return at a later read.
        ClockAfter == {now} \cup { x \in Instants : x > now }
    IN
    /\ t \in TaskIds
    /\ tasks[t].pc = "loop"
    /\ log' = <<>>
    /\ UNCHANGED <<running, task, last_execution, config, fires, scheduled, cmd, result, embeds, status>>
    /\ IF ~running
       THEN /\ tasks' = SetTask(t, At(t, "done"))
            /\ UNCHANGED <<next_execution, now>>
       ELSE LET next_time == CalcNext(now, execution_hour, execution_minute) IN
            /\ next_execution' = next_time
            /\ \E now2 \in ClockAfter :
                 LET wait_seconds == next_time - now2 IN
                 /\ now' = now2
                 /\ IF wait_seconds > 0
                    THEN tasks' = SetTask(t, [At(t, "sleep") EXCEPT !.wake = next_time])
                    ELSE /\ fires < MaxFires
                         /\ tasks' = SetTask(t, At(t, "woke"))

\* asyncio.sleep(wait_seconds) returns, no earlier than the instant it was
\* asked to sleep until.
SleepReturn(t) ==
    /\ Resumable(t, "sleep")
    /\ fires < MaxFires
    /\ \E w \in Instants :
         /\ w >= tasks[t].wake
         /\ w >= now
         /\ now' = w
    /\ tasks' = SetTask(t, Ended(t, "woke"))
    /\ UNCHANGED <<running, task, last_execution, next_execution, config, log,
                   fires, scheduled, cmd, result, embeds, status>>

\* ------------------------------------------------------------ _execute_query
\* Mutant of ChannelMissing: the fire step goes on without a channel.
ChannelMissing_Ignored(found) == FALSE

\* Mutant of ErrorQueryId: the error embed names the summary query.
ErrorQueryId_Sums == sums_query_id

\* `if channel is None:` after bot.get_channel
ChannelMissing(found) == ~found

\* query_id=self.query_id of the error embed
ErrorQueryId == query_id

\* Mutant of Handler: the summary step is outside the try and runs after the
\* except block too.
Handler_ThenSummary(t, lg, r) ==
    /\ log' = lg \o <<EvResolve(TRUE, 2, t),
                      EvSend("error", ErrorQueryId, MsgUnderlying, t),
                      EvSendRet("ok", t), EvQuery(sums_query_id, t)>>
    /\ tasks' = SetTask(t, [r EXCEPT !.pc = "sums_query"])

\* The `except Exception` block of _execute_query, entered with log lg and task
\* record r: look the channel up again and send the error embed to it.
Handler(t, lg, r) ==
    \E found \in BOOLEAN :
        IF found
        THEN /\ log' = lg \o <<EvResolve(TRUE, 2, t),
                             EvSend("error", ErrorQueryId, MsgUnderlying, t)>>
             /\ tasks' = SetTask(t, [r EXCEPT !.pc = "send_err"])
        ELSE /\ log' = Append(lg, EvResolve(FALSE, 2, t))
             /\ tasks' = SetTask(t, Left(r, "loop"))

\* Mutant of SumsConfigured: the summary step runs whatever the setting.
SumsConfigured_Always == TRUE

\* `if self.sums_query_id:`
SumsConfigured == sums_query_id # None /\ sums_query_id # 0

\* After the delivery: the completion log line, then the summary step if a
\* summary query is configured.
AfterPrimary(t, lg, r) ==
    IF SumsConfigured
    THEN /\ log' = lg \o <<EvCompleted(r.n, t), EvQuery(sums_query_id, t)>>
         /\ tasks' = SetTask(t, [r EXCEPT !.pc = "sums_query"])
    ELSE /\ log' = Append(lg, EvCompleted(r.n, t))
         /\ tasks' = SetTask(t, Left(r, "loop"))

\* Mutant of AfterErrSend: a failed send of the error embed ends the task.
AfterErrSend_Dies(out) == IF out = "fail" THEN "done" ELSE "loop"

\* Mutant of NeedsWait: the wait before the second unit is skipped.
NeedsWait_Late(i) == i > 2

\* `if i > 1:` of the delivery loop
NeedsWait(i) == i > 1

\* Iteration i of `for i, embed in enumerate(embeds, start=1)`.
IterStart(t, lg, r, i) ==
    IF NeedsWait(i)
    THEN /\ log' = Append(lg, EvWait(embed_delay_seconds, t))
         /\ tasks' = SetTask(t, [r EXCEPT !.pc = "delay", !.i = i])
    ELSE /\ log' = Append(lg, EvSend("unit", i, 0, t))
         /\ tasks' = SetTask(t, [r EXCEPT !.pc = "send_unit", !.i = i])

\* format_query_result_rows: one embed per row, one "no results" embed for none.
NumEmbeds(rows) == IF rows = 0 THEN 1 ELSE rows

\* Mutant of LastExecutionAtFire: the time is recorded after the channel check.
LastExecutionAtFire_AfterLookup(found) == IF found THEN now ELSE last_execution

\* `self._last_execution = datetime.now()`: the first assignment of
\* _execute_query, above the try and the channel lookup.
LastExecutionAtFire(found) == now

\* The start of _execute_query, up to its first await.
Fire(t) ==
    /\ t \in TaskIds
    /\ tasks[t].pc = "woke"
    /\ UNCHANGED <<running, task, next_execution, config, now, scheduled, cmd, result, embeds, status>>
    /\ IF running
       THEN /\ fires' = fires + 1
            /\ \E found \in BOOLEAN :
                 /\ last_execution' = LastExecutionAtFire(found)
                 /\ IF ChannelMissing(found)
                    THEN /\ log' = <<EvResolve(found, 1, t)>>
                         /\ tasks' = SetTask(t, At(t, "loop"))
                    ELSE /\ log' = <<EvResolve(found, 1, t), EvQuery(query_id, t)>>
                         /\ tasks' = SetTask(t, At(t, "query"))
       ELSE /\ tasks' = SetTask(t, At(t, "loop"))
            /\ UNCHANGED <<fires, last_execution, log>>

TaskFrame == UNCHANGED <<running, task, last_execution, next_execution, config,
                         now, fires, scheduled, cmd, result, embeds, status>>

\* execute_query_async returns or raises; on a result the embeds are built and
\* the delivery begins.
QueryReturn(t) ==
    LET
        \* `if len(embeds) > 1:`
        IsMulti(n) == n > 1
    IN
    /\ Resumable(t, "query")
    /\ TaskFrame
    /\ \/ \E e \in QueryErrors :
            Handler(t, Append(log, EvQueryRet(e, 0, t)), tasks[t])
       \/ \E rows \in 0..MaxUnits :
            Handler(t, log \o <<EvQueryRet("ok", rows, t), EvFormat("raise", 0, t)>>,
                    tasks[t])
       \/ \E rows \in 0..MaxUnits :
            LET n  == NumEmbeds(rows)
                lg == log \o <<EvQueryRet("ok", rows, t), EvFormat("ok", n, t)>>
                r  == [tasks[t] EXCEPT !.n = n, !.i = 0]
            IN  IF IsMulti(n)
                THEN /\ log' = Append(lg, EvSend("notice", n, embed_delay_seconds, t))
                     /\ tasks' = SetTask(t, [r EXCEPT !.pc = "send_notice"])
                ELSE /\ log' = Append(lg, EvSend("unit", 1, 0, t))
                     /\ tasks' = SetTask(t, [r EXCEPT !.pc = "send_single", !.i = 1])

\* The progress notice's send returns or raises (outside the per-unit try).
SendNoticeReturn(t) ==
    /\ Resumable(t, "send_notice")
    /\ TaskFrame
    /\ \E out \in SendOutcomes :
         LET lg == Append(log, EvSendRet(out, t)) IN
         IF out = "ok" THEN IterStart(t, lg, tasks[t], 1)
                       ELSE Handler(t, lg, tasks[t])

\* Mutant of NextAfterUnit: a unit's failed send is not caught in the loop.
NextAfterUnit_Abort(out, i, n) ==
    IF out = "fail" THEN "handler" ELSE IF i < n THEN "next" ELSE "after"

\* Where the loop goes after unit i's send: its `except Exception` only logs.
NextAfterUnit(out, i, n) == IF i < n THEN "next" ELSE "after"

SendUnitReturn(t) ==
    /\ Resumable(t, "send_unit")
    /\ TaskFrame
    /\ \E out \in SendOutcomes :
         LET lg  == Append(log, EvSendRet(out, t))
             r   == tasks[t]
             nxt == NextAfterUnit(out, r.i, r.n)
         IN  CASE nxt = "next"  -> IterStart(t, lg, r, r.i + 1)
               [] nxt = "after" -> AfterPrimary(t, lg, r)
               [] OTHER         -> Handler(t, lg, r)

\* asyncio.sleep(self.embed_delay_seconds) returns; the unit's send begins.
DelayReturn(t) ==
    /\ Resumable(t, "delay")
    /\ TaskFrame
    /\ log' = Append(log, EvSend("unit", tasks[t].i, 0, t))
    /\ tasks' = SetTask(t, At(t, "send_unit"))

\* `await channel.send(embed=embeds[0])`: not inside a per-unit try.
SendSingleReturn(t) ==
    /\ Resumable(t, "send_single")
    /\ TaskFrame
    /\ \E out \in SendOutcomes :
         LET lg == Append(log, EvSendRet(out, t)) IN
         IF out = "ok" THEN AfterPrimary(t, lg, tasks[t])
                       ELSE Handler(t, lg, tasks[t])

\* Where the task goes when the error embed's send raises: the inner
\* `except Exception as send_error` only logs.
AfterErrSend(out) == "loop"

SendErrReturn(t) ==
    /\ Resumable(t, "send_err")
    /\ TaskFrame
    /\ \E out \in SendOutcomes :
         /\ log' = Append(log, EvSendRet(out, t))
         /\ tasks' = SetTask(t, Ended(t, AfterErrSend(out)))

\* ------------------------------------------------------- _execute_sums_query
\* Mutant of SumsHandler: the summary step's failure reaches the handler of
\* _execute_query.
SumsHandler_Propagates(t, lg, r) == Handler(t, lg, r)

\* The `except Exception` block of _execute_sums_query.
SumsHandler(t, lg, r) ==
    /\ log' = Append(lg, EvSend("sums_error", sums_query_id, MsgUnderlying, t))
    /\ tasks' = SetTask(t, [r EXCEPT !.pc = "send_sums_err"])

SumsQueryReturn(t) ==
    /\ Resumable(t, "sums_query")
    /\ TaskFrame
    /\ \/ \E e \in QueryErrors :
            SumsHandler(t, Append(log, EvQueryRet(e, 0, t)), tasks[t])
       \/ SumsHandler(t, log \o <<EvQueryRet("ok", 1, t), EvFormat("raise", 0, t)>>,
                      tasks[t])
       \/ /\ log' = log \o <<EvQueryRet("ok", 1, t), EvFormat("ok", 1, t),
                             EvSend("sums", sums_query_id, 0, t)>>
          /\ tasks' = SetTask(t, At(t, "send_sums"))

SendSumsReturn(t) ==
    /\ Resumable(t, "send_sums")
    /\ TaskFrame
    /\ \E out \in SendOutcomes :
         LET lg == Append(log, EvSendRet(out, t)) IN
         IF out = "ok"
         THEN /\ log' = lg
              /\ tasks' = SetTask(t, Ended(t, "loop"))
         ELSE SumsHandler(t, lg, tasks[t])

SendSumsErrReturn(t) ==
    /\ Resumable(t, "send_sums_err")
    /\ TaskFrame
    /\ \E out \in SendOutcomes :
         /\ log' = Append(log, EvSendRet(out, t))
         /\ tasks' = SetTask(t, Ended(t, "loop"))

\* ----------------------------------------------------------- DuneCommands

CmdFrame == UNCHANGED <<running, task, tasks, last_execution, next_execution,
                        config, now, fires, scheduled, result, embeds, status>>

\* A user runs /dune or /dune_latest: the handler is called and awaits
\* interaction.response.defer.
Invoke ==
    /\ ~scheduled
    /\ cmd.pc \in {"idle", "done", "raised"}
    /\ \E name \in CmdNames, qid \in CmdQueryIds :
         cmd' = [IdleCmd EXCEPT !.pc = "defer", !.name = name, !.qid = qid]
    /\ log' = <<>>
    /\ CmdFrame

\* defer returns, and the gateway is called; or it raises, outside any try.
DeferReturn ==
    LET
        \* Events of a command carry t = 0.
        EvDefer(out)      == Ev("defer", out, 0, 0, 0)
        EvLatest(qid)     == Ev("query", "latest", qid, 0, 0)
    IN
    /\ cmd.pc = "defer"
    /\ CmdFrame
    /\ \/ /\ log' = <<EvDefer("ok"),
                      IF cmd.name = "dune" THEN EvQuery(cmd.qid, 0)
                                           ELSE EvLatest(cmd.qid)>>
          /\ cmd' = [cmd EXCEPT !.pc = "query"]
       \/ /\ log' = <<EvDefer("raise")>>
          /\ cmd' = [cmd EXCEPT !.pc = "raised"]

\* Mutant of CmdHandler: /dune has no `except Exception` clause, so an
\* exception that is no DuneQueryError leaves the handler without a follow-up.
CmdHandler_NoCatchAll(exc, lg) ==
    IF exc \in {"Timeout", "Failure"}
    THEN /\ log' = Append(lg, EvSend("error", cmd.qid,
                                     IF exc = "Timeout" /\ cmd.name = "dune"
                                     THEN MsgTimeoutHint ELSE MsgUnderlying, 0))
         /\ cmd' = [cmd EXCEPT !.pc = "send_err"]
    ELSE /\ log' = lg
         /\ cmd' = [cmd EXCEPT !.pc = "raised"]

\* An exception `exc` inside the handler's try, with log lg.
CmdHandler(exc, lg) ==
    LET
        \* The message of the error embed the except clause that catches `exc`
        \* builds, 0 when no clause of the handler catches it.  execute_query has
        \* clauses for DuneTimeoutError, DuneQueryError and Exception, in this order;
        \* get_latest_results has one for DuneQueryError (which DuneTimeoutError is).
        CmdErrorMessage(name, e) ==
            IF name = "dune"
            THEN CASE e = "Timeout" -> MsgTimeoutHint
                   [] e = "Failure" -> MsgUnderlying
                   [] OTHER         -> MsgGeneric
            ELSE IF e \in {"Timeout", "Failure"} THEN MsgUnderlying ELSE 0
    IN
    LET msg == CmdErrorMessage(cmd.name, exc) IN
    IF msg # 0
    THEN /\ log' = Append(lg, EvSend("error", cmd.qid, msg, 0))
         /\ cmd' = [cmd EXCEPT !.pc = "send_err"]
    ELSE /\ log' = lg
         /\ cmd' = [cmd EXCEPT !.pc = "raised"]

\* Mutant of CmdNeedsWait: the handlers send the units without waiting.
CmdNeedsWait_Never(i) == FALSE

\* `if i > 1:` of the handlers' delivery loops
CmdNeedsWait(i) == i > 1

CmdIterStart(lg, i) ==
    IF CmdNeedsWait(i)
    THEN /\ log' = Append(lg, EvWait(embed_delay_seconds, 0))
         /\ cmd' = [cmd EXCEPT !.pc = "delay", !.i = i]
    ELSE /\ log' = Append(lg, EvSend("unit", i, 0, 0))
         /\ cmd' = [cmd EXCEPT !.pc = "send_unit", !.i = i]

\* The handler returns after the delivery.
CmdAfter(lg) ==
    /\ log' = Append(lg, EvCompleted(cmd.n, 0))
    /\ cmd' = [cmd EXCEPT !.pc = "done"]

CmdQueryReturn ==
    LET
        \* `if len(embeds) > 1:` of the handlers
        CmdIsMulti(n) == n > 1
        \* The errors the gateway call of a command can end in.
        CmdQueryErrors(name) ==
            IF name = "dune" THEN QueryErrors ELSE QueryErrors \ {"Timeout"}
    IN
    /\ cmd.pc = "query"
    /\ CmdFrame
    /\ \/ \E e \in CmdQueryErrors(cmd.name) :
            CmdHandler(e, Append(log, EvQueryRet(e, 0, 0)))
       \/ \E rows \in 0..MaxUnits :
            CmdHandler("Format",
                       log \o <<EvQueryRet("ok", rows, 0), EvFormat("raise", 0, 0)>>)
       \/ \E rows \in 0..MaxUnits :
            LET n  == NumEmbeds(rows)
                lg == log \o <<EvQueryRet("ok", rows, 0), EvFormat("ok", n, 0)>>
            IN  IF CmdIsMulti(n)
                THEN /\ log' = Append(lg, EvSend("notice", n, embed_delay_seconds, 0))
                     /\ cmd' = [cmd EXCEPT !.pc = "send_notice", !.n = n]
                ELSE /\ log' = Append(lg, EvSend("unit", 1, 0, 0))
                     /\ cmd' = [cmd EXCEPT !.pc = "send_single", !.n = n, !.i = 1]

CmdSendNoticeReturn ==
    /\ cmd.pc = "send_notice"
    /\ CmdFrame
    /\ \E out \in SendOutcomes :
         LET lg == Append(log, EvSendRet(out, 0)) IN
         IF out = "ok" THEN CmdIterStart(lg, 1) ELSE CmdHandler("Send", lg)

CmdSendUnitReturn ==
    LET
        \* Where the handlers' loop goes after unit i's send: `except Exception`
        \* only logs.
        CmdNextAfterUnit(out, i, n) == IF i < n THEN "next" ELSE "after"
    IN
    /\ cmd.pc = "send_unit"
    /\ CmdFrame
    /\ \E out \in SendOutcomes :
         LET lg  == Append(log, EvSendRet(out, 0))
             nxt == CmdNextAfterUnit(out, cmd.i, cmd.n)
         IN  CASE nxt = "next"  -> CmdIterStart(lg, cmd.i + 1)
               [] nxt = "after" -> CmdAfter(lg)
               [] OTHER         -> CmdHandler("Send", lg)

CmdDelayReturn ==
    /\ cmd.pc = "delay"
    /\ CmdFrame
    /\ log' = Append(log, EvSend("unit", cmd.i, 0, 0))
    /\ cmd' = [cmd EXCEPT !.pc = "send_unit"]

CmdSendSingleReturn ==
    /\ cmd.pc = "send_single"
    /\ CmdFrame
    /\ \E out \in SendOutcomes :
         LET lg == Append(log, EvSendRet(out, 0)) IN
         IF out = "ok" THEN CmdAfter(lg) ELSE CmdHandler("Send", lg)

\* The error embed's follow-up send returns, or raises out of the handler.
CmdSendErrReturn ==
    /\ cmd.pc = "send_err"
    /\ CmdFrame
    /\ \E out \in SendOutcomes :
         /\ log' = Append(log, EvSendRet(out, 0))
         /\ cmd' = [cmd EXCEPT !.pc = IF out = "ok" THEN "done" ELSE "raised"]

CmdStep ==
    \/ Invoke
    \/ DeferReturn
    \/ CmdQueryReturn
    \/ CmdSendNoticeReturn
    \/ CmdSendUnitReturn
    \/ CmdDelayReturn
    \/ CmdSendSingleReturn
    \/ CmdSendErrReturn

\* -------------------------------------------------------------- DuneClient
\* The exception classes and their bases.
ExcParent(c) ==
    CASE c = "DuneTimeoutError" -> "DuneQueryError"
      [] c = "DuneQueryError"   -> "Exception"
      [] c = "TimeoutError"     -> "OSError"
      [] c = "OSError"          -> "Exception"
      [] c = "RuntimeError"     -> "Exception"
      [] c = "Exception"        -> "BaseException"
      [] OTHER                  -> "object"

\* issubclass(c, d): what `except d` catches.
RECURSIVE IsA(_, _)
IsA(c, d) ==
    IF c = d THEN TRUE
    ELSE IF c = "object" THEN FALSE
    ELSE IsA(ExcParent(c), d)

SdkOutcomes ==
    LET
        \* What a call of the SDK ends in: a result with x rows, or an exception of
        \* class out whose str() is message x.
        SdkMessages == {1, 2}
        SdkRows     == {2}
    IN
    [out : {"ok"}, x : SdkRows]
        \cup [out : {"RuntimeError"}, x : SdkMessages]
        \cup [out : {"TimeoutError"}, x : {1}]

\* A message built from a prefix and the str(e) it embeds (0: none).
GwMessage(prefix, inner) == prefix * MsgBase + inner
MsgEmbeds(msg, inner) == inner # 0 /\ msg % MsgBase = inner

\* Mutant of ExecuteQuery: no clause for TimeoutError.
ExecuteQuery_Flat(qid, timeout, sdk) ==
    IF sdk.out = "ok"
    THEN [out |-> "ok", qid |-> qid, x |-> sdk.x]
    ELSE [out |-> "DuneQueryError", qid |-> qid,
          x |-> GwMessage(PrefixFailed, sdk.x)]

\* DuneClient.execute_query on the outcome of self._client.run_query: the
\* QueryResult, or the exception raised (class, query_id, message).
ExecuteQuery(qid, timeout, sdk) ==
    LET
        \* The same with the number of seconds the message states, as its hundreds.
        GwMessageSecs(prefix, inner, secs) ==
            secs * MsgBase * MsgBase + GwMessage(prefix, inner)
    IN
    IF sdk.out = "ok"
    THEN [out |-> "ok", qid |-> qid, x |-> sdk.x]
    ELSE IF IsA(sdk.out, "TimeoutError")
    THEN [out |-> "DuneTimeoutError", qid |-> qid,
          x |-> GwMessageSecs(PrefixTimedOut, 0, timeout)]
    ELSE [out |-> "DuneQueryError", qid |-> qid,
          x |-> GwMessage(PrefixFailed, sdk.x)]

\* DuneClient.get_latest_results on the outcome of
\* self._client.get_latest_result: one clause, `except Exception`.
GetLatestResults(qid, sdk) ==
    IF sdk.out = "ok"
    THEN [out |-> "ok", qid |-> qid, x |-> sdk.x]
    ELSE [out |-> "DuneQueryError", qid |-> qid,
          x |-> GwMessage(PrefixLatest, sdk.x)]

GwMethods  == {"execute_query", "get_latest_results"}
GwQueryIds == QueryIds \cup CmdQueryIds

EvGwCall(method, qid, timeout) == Ev("gw_call", method, qid, timeout, 0)
EvSdkCall(method, qid) ==
    LET
        \* The SDK method a method of the client calls.
        SdkMethod(m) ==
            IF m = "execute_query" THEN "run_query" ELSE "get_latest_result"
    IN
    Ev("sdk_call", SdkMethod(method), qid, 0, 0)

GwFrame == UNCHANGED <<running, task, tasks, last_execution, next_execution,
                       config, now, fires, scheduled, cmd, result, embeds, status>>

\* Mutant of RetryAfter: a failed SDK call is made a second time.
RetryAfter_OnFailure(sdk, attempts) == sdk.out # "ok" /\ attempts < 2

\* Whether the method calls the SDK again after outcome sdk of attempt number
\* `attempts`: there is no loop around the call.
RetryAfter(sdk, attempts) == FALSE

\* A method of the client is called on a worker thread and calls the SDK.
GwCall ==
    /\ ~scheduled
    /\ cmd.pc = "idle"
    /\ IF log = <<>> THEN TRUE ELSE log[Len(log)].ev = "gw_ret"
    /\ Len(SelectSeq(log, LAMBDA e : e.ev = "gw_call")) < MaxCalls
    /\ \E method \in GwMethods, qid \in GwQueryIds :
         log' = log \o <<EvGwCall(method, qid,
                                  IF method = "execute_query"
                                  THEN QueryTimeout ELSE 0),
                         EvSdkCall(method, qid)>>
    /\ GwFrame

\* The SDK call returns or raises, and the method returns or raises.
GwReturn ==
    LET
        EvSdkRet(sdk)                  == Ev("sdk_ret", sdk.out, sdk.x, 0, 0)
        EvGwRet(r)                     == Ev("gw_ret", r.out, r.qid, r.x, 0)
        \* Index of the latest call of a method in the log.
        LastCallIdx ==
            CHOOSE k \in 1..Len(log) :
                /\ log[k].ev = "gw_call"
                /\ \A j \in (k + 1)..Len(log) : log[j].ev # "gw_call"
    IN
    /\ IF log = <<>> THEN FALSE ELSE log[Len(log)].ev = "sdk_call"
    /\ \E sdk \in SdkOutcomes :
         LET call == log[LastCallIdx]
             made == Len(SelectSeq(SubSeq(log, LastCallIdx, Len(log)),
                                   LAMBDA e : e.ev = "sdk_call"))
             r    == IF call.kind = "execute_query"
                     THEN ExecuteQuery(call.a, call.b, sdk)
                     ELSE GetLatestResults(call.a, sdk)
         IN  IF RetryAfter(sdk, made)
             THEN log' = log \o <<EvSdkRet(sdk), EvSdkCall(call.kind, call.a)>>
             ELSE log' = log \o <<EvSdkRet(sdk), EvGwRet(r)>>
    /\ GwFrame

\* ------------------------------------------------------------ specification
TaskStep(t) ==
    \/ TaskBegin(t)
    \/ CancelDelivered(t)
    \/ LoopIter(t)
    \/ SleepReturn(t)
    \/ Fire(t)
    \/ QueryReturn(t)
    \/ SendNoticeReturn(t)
    \/ SendUnitReturn(t)
    \/ DelayReturn(t)
    \/ SendSingleReturn(t)
    \/ SendErrReturn(t)
    \/ SumsQueryReturn(t)
    \/ SendSumsReturn(t)
    \/ SendSumsErrReturn(t)

Next ==
    LET
        GwStep == GwCall \/ GwReturn
    IN
    \/ Start
    \/ Stop
    \/ \E t \in 1..MaxTasks : TaskStep(t)
    \/ CmdStep
    \/ GwStep

Spec == Init /\ [][Next]_vars

\* Every task that can run does: the event loop resumes a task whose await
\* has an outcome (the claims that need it assume every call returns).
FairSpec == Spec /\ \A t \in 1..MaxTasks : WF_vars(TaskStep(t))

\* ------------------------------------- _calculate_next_execution on its own

\* A runner constructed with any valid (hour, minute) at any sampled `now`.
InitCalc ==
    LET
        \* The times of day `now` is drawn at: around the configured time, midnight,
        \* the last second of the day, and the 10:00 and 15:00 of the tests.
        CalcTimesOfDay(hour, minute) ==
            LET cfg == hour * HourSeconds + minute * MinuteSeconds IN
            { x \in {cfg - 1, cfg, cfg + 1, 0, DaySeconds - 1,
                     10 * HourSeconds, 15 * HourSeconds} : x >= 0 /\ x < DaySeconds }
    IN
    /\ running = FALSE
    /\ task = 0
    /\ tasks = <<>>
    /\ last_execution = None
    /\ next_execution = None
    /\ query_id = 1
    /\ sums_query_id = None
    /\ embed_delay_seconds = DefaultDelay
    /\ execution_hour \in 0..(HoursPerDay - 1)
    /\ execution_minute \in 0..(MinutesPerHour - 1)
    /\ \E d \in 0..MaxDay :
         \E x \in CalcTimesOfDay(execution_hour, execution_minute) :
           now = d * DaySeconds + x
    /\ log = <<>>
    /\ fires = 0
    /\ scheduled = TRUE
    /\ cmd = IdleCmd
    /\ result = NoResult
    /\ embeds = <<>>
    /\ status = NoStatus

\* _calculate_next_execution() is called and its result kept, as get_status
\* and the loop head do.
CalculateNext ==
    /\ next_execution = None
    /\ next_execution' = CalcNext(now, execution_hour, execution_minute)
    /\ UNCHANGED <<running, task, tasks, last_execution, config, now, log,
                   fires, scheduled, cmd, result, embeds, status>>

NextCalc == CalculateNext

SpecCalc == InitCalc /\ [][NextCalc]_vars

\* ------------------------------------------------------- discord_embeds.py
\* BLOCKCHAIN_EXPLORERS
ExplorerChains == {"ethereum", "optimism", "arbitrum"}
BlockchainExplorers(chain) ==
    CASE chain = "ethereum" -> "https://etherscan.io/tx/"
      [] chain = "optimism" -> "https://optimistic.etherscan.io/tx/"
      [] chain = "arbitrum" -> "https://arbiscan.io/tx/"

\* Mutant of FormatTxLink: the chain name is looked up as it is written.
FormatTxLink_CaseSensitive(blockchain, tx_hash) ==
    IF tx_hash = NoneStr \/ blockchain = NoneStr THEN "unknown"
    ELSE IF blockchain \in ExplorerChains
         THEN "[" \o tx_hash \o "](" \o BlockchainExplorers(blockchain)
                  \o tx_hash \o ")"
         ELSE "unknown"

\* _format_tx_link
FormatTxLink(blockchain, tx_hash) ==
    LET
        \* str.lower() on the chain names that are drawn.
        Lower(str) ==
            CASE str = "Ethereum" -> "ethereum"
              [] str = "ARBITRUM" -> "arbitrum"
              [] OTHER            -> str
    IN
    IF tx_hash = NoneStr THEN "unknown"
    ELSE IF blockchain = NoneStr THEN "unknown"
    ELSE LET blockchain_lower == Lower(blockchain) IN
         IF blockchain_lower \in ExplorerChains
         THEN "[" \o tx_hash \o "](" \o BlockchainExplorers(blockchain_lower)
                  \o tx_hash \o ")"
         ELSE "unknown"

\* _format_field_value on None and on the strings that are drawn, none of
\* which looks like a datetime: "N/A", or the string itself.
FormatFieldValue(value) == IF value = NoneStr THEN "N/A" ELSE value

\* _format_discord_timestamp on None and on the one timestamp that is drawn.
FormatDiscordTimestamp(block_time) ==
    CASE block_time = NoneStr               -> "N/A"
      [] block_time = "2024-01-01T12:00:00" -> "<t:1704110400:f>"
      [] OTHER                              -> "N/A"

\* _format_alcx_amount: (field_name, formatted_amount), sold before bought.
FormatAlcxAmount(row) ==
    IF row.token_sold_symbol = "ALCX"
    THEN <<"ALCX Sold", FormatFieldValue(row.token_sold_amount)>>
    ELSE IF row.token_bought_symbol = "ALCX"
    THEN <<"ALCX Bought", FormatFieldValue(row.token_bought_amount)>>
    ELSE <<NoneStr, NoneStr>>

\* embed.add_field(name=..., value=..., inline=True)
Field(name, value) == [name |-> name, value |-> value, inline |-> TRUE]

EmbedTitle == "ALCX Dex Swap"            \* title: str = "ALCX Dex Swap"
EmbedColor == <<88, 101, 242>>           \* discord.Color.from_rgb(88, 101, 242)

\* The timestamp an embed built at clock t carries: datetime.now(timezone.utc).
EmbedTimestamp(t) == t

\* Mutant of RowIndex: the footer counts rows from 0.
RowIndex_FromZero(i) == i - 1

\* enumerate(result.rows, start=1): the number of the i-th row.
RowIndex(i) == i

\* `if alcx_field_name and alcx_amount:`
ShowsAlcxField(alcx) ==
    LET
        \* The truth value of a str or None.
        Truthy(str) == str # NoneStr /\ str # ""
    IN
                        Truthy(alcx[1]) /\ Truthy(alcx[2])

\* One pass of the loop body of format_query_result_rows.
RowEmbed(res, i, t) ==
    LET row  == res.rows[i]
        alcx == FormatAlcxAmount(row)
    IN  [title |-> EmbedTitle, description |-> NoneStr,
         color |-> EmbedColor, timestamp |-> EmbedTimestamp(t),
         fields |->
             <<Field("Block Time", FormatDiscordTimestamp(row.block_time))>>
             \o (IF ShowsAlcxField(alcx)
                 THEN <<Field(alcx[1], alcx[2])>> ELSE <<>>)
             \o <<Field("Amount USD", FormatFieldValue(row.amount_usd)),
                  Field("Txn", FormatTxLink(row.blockchain, row.tx_hash))>>,
         footer |-> "Query ID: " \o ToString(res.query_id) \o " | Row "
                    \o ToString(RowIndex(i)) \o " of "
                    \o ToString(Len(res.rows))]

\* format_query_result_rows called at clock t.
FormatQueryResultRows(res, t) ==
    LET
        \* The embed of the "no results" branch.
        EmptyEmbed(r, u) ==
            [title |-> EmbedTitle, description |-> "*No results returned*",
             color |-> EmbedColor, timestamp |-> EmbedTimestamp(u), fields |-> <<>>,
             footer |-> "Query ID: " \o ToString(r.query_id) \o " | 0 rows"]
    IN
    IF Len(res.rows) = 0
    THEN <<EmptyEmbed(res, t)>>
    ELSE [i \in 1..Len(res.rows) |-> RowEmbed(res, i, t)]

AmountRows ==
    LET
        \* The rows that are drawn: a missing key reads as None (row.get).
        Symbols == {NoneStr, "ALCX", "WETH"}
        Amounts == {"12.5", ""}
    IN
    [token_sold_symbol : Symbols, token_bought_symbol : Symbols,
     token_sold_amount : Amounts, token_bought_amount : {"7"},
     blockchain : {"ethereum"}, tx_hash : {"0xabc"},
     block_time : {"2024-01-01T12:00:00"}, amount_usd : {"100"}]

LinkRows ==
    LET
        Chains  == {NoneStr, "ethereum", "Ethereum", "ARBITRUM", "polygon"}
        Hashes  == {NoneStr, "0xabc"}
    IN
    [token_sold_symbol : {"WETH"}, token_bought_symbol : {"ALCX"},
     token_sold_amount : {"12.5"}, token_bought_amount : {"7"},
     blockchain : Chains, tx_hash : Hashes,
     block_time : {NoneStr}, amount_usd : {NoneStr}]

\* A QueryResult is at hand; the formatter has not been called.
InitFormat ==
    LET
        RowValues == AmountRows \cup LinkRows
        RowSeqs == UNION { [1..n -> RowValues] : n \in 0..MaxRows }
    IN
    /\ running = FALSE
    /\ task = 0
    /\ tasks = <<>>
    /\ last_execution = None
    /\ next_execution = None
    /\ query_id = 1
    /\ sums_query_id = None
    /\ embed_delay_seconds = DefaultDelay
    /\ execution_hour = 0
    /\ execution_minute = 0
    /\ now = 0
    /\ log = <<>>
    /\ fires = 0
    /\ scheduled = FALSE
    /\ cmd = IdleCmd
    /\ \E qid \in GwQueryIds, rows \in RowSeqs :
         result = [query_id |-> qid, rows |-> rows]
    /\ embeds = <<>>
    /\ status = NoStatus

FormatFrame == UNCHANGED <<running, task, tasks, last_execution,
                           next_execution, config, log, fires, scheduled, cmd,
                           status>>

\* embeds = format_query_result_rows(result)
FormatCall ==
    /\ embeds' = FormatQueryResultRows(result, now)
    /\ UNCHANGED <<result, now>>
    /\ FormatFrame

\* Time passes between two calls.
FormatTick ==
    LET
        FormatTimes == {0, 1}                    \* the clock at the calls
    IN
    /\ \E t \in FormatTimes : t > now /\ now' = t
    /\ UNCHANGED <<result, embeds, status>>
    /\ FormatFrame

NextFormat == FormatCall \/ FormatTick

SpecFormat == InitFormat /\ [][NextFormat]_vars

\* ------------------------------------------- format_alcx_sums_embed (spec)
\* A cell of the first row, as the summary transform reads it: the column may
\* be absent, null, a number (held in cents) or a string (held as its
\* characters).
SumsCell(kind, cents, chars) == [kind |-> kind, cents |-> cents, chars |-> chars]

CellNull      == SumsCell("null", 0, <<>>)
CellNum(c)    == SumsCell("num", c, <<>>)
CellStr(s)    == SumsCell("str", 0, s)

DigitVal(c) ==
    CASE c = "0" -> 0 [] c = "1" -> 1 [] c = "2" -> 2 [] c = "3" -> 3
      [] c = "4" -> 4 [] c = "5" -> 5 [] c = "6" -> 6 [] c = "7" -> 7
      [] c = "8" -> 8 [] c = "9" -> 9

\* The value of a string of digits.
RECURSIVE DigitsVal(_)
DigitsVal(s) ==
    IF Len(s) = 0 THEN 0
    ELSE DigitsVal(SubSeq(s, 1, Len(s) - 1)) * 10 + DigitVal(s[Len(s)])

\* A numeric string read as an amount in cents, None when it is not numeric:
\* digits with at most one point and at most two digits after it.
ParseAmount(s) ==
    LET
        Digits == {"0", "1", "2", "3", "4", "5", "6", "7", "8", "9"}
    IN
    LET dots == { i \in 1..Len(s) : s[i] = "." }
        ok   == /\ \A i \in 1..Len(s) : s[i] \in Digits \cup {"."}
                /\ \E i \in 1..Len(s) : s[i] \in Digits
                /\ Cardinality(dots) <= 1
    IN  IF ~ok THEN None
        ELSE IF dots = {} THEN DigitsVal(s) * 100
        ELSE LET d    == CHOOSE i \in dots : TRUE
                 frac == SubSeq(s, d + 1, Len(s))
             IN  IF Len(frac) > 2 THEN None
                 ELSE DigitsVal(SubSeq(s, 1, d - 1)) * 100
                        + (IF Len(frac) = 1 THEN DigitsVal(frac) * 10
                                            ELSE DigitsVal(frac))

\* k written with two / three digits.
Pad2(k) == IF k < 10 THEN "0" \o ToString(k) ELSE ToString(k)
Pad3(k) == IF k < 100 THEN "0" \o Pad2(k) ELSE ToString(k)

\* Mutant of Grouped: no thousands separators.
Grouped_Plain(n) == ToString(n)

\* n written with a comma between groups of three digits.
RECURSIVE Grouped(_)
Grouped(n) ==
    IF n < 1000 THEN ToString(n)
    ELSE Grouped(n \div 1000) \o "," \o Pad3(n % 1000)

\* An amount in cents as currency: thousands separators and two decimals.
FormatUsd(cents) ==
    "$" \o Grouped(cents \div 100) \o "." \o Pad2(cents % 100)

\* One column of the first row as the value of its field.
SumsValue(cell) ==
    CASE cell.kind = "num" -> FormatUsd(cell.cents)
      [] cell.kind = "str" ->
            IF ParseAmount(cell.chars) = None THEN "N/A"
            ELSE FormatUsd(ParseAmount(cell.chars))
      [] OTHER -> "N/A"

SumsTitle == "ALCX 24h Summary"

\* toSummaryUnit: the "no data" unit for an empty result, otherwise the two
\* fields read from the first row.
FormatAlcxSumsEmbed(res) ==
    IF Len(res.rows) = 0
    THEN [title |-> SumsTitle, description |-> "No data available",
          fields |-> <<>>,
          footer |-> <<"Query ID: " \o ToString(res.query_id)>>]
    ELSE [title |-> SumsTitle, description |-> NoneStr,
          fields |-> <<Field("ALCX Bought (USD)", SumsValue(res.rows[1].alcx_bought_usd)),
                       Field("ALCX Sold (USD)", SumsValue(res.rows[1].alcx_sold_usd))>>,
          footer |-> <<"Query ID: " \o ToString(res.query_id), "24h Totals">>]

\* The summary query's QueryResult is at hand.
InitSums ==
    LET
        CellAbsent    == SumsCell("absent", 0, <<>>)
        \* The cells that are drawn: the values of the tests, and strings that are
        \* not numbers.
        SumsNums == {0, 10000, 850025, 1500050, 123456789}
        SumsStrs == {<<"5", "0", "0", "0", ".", "0", "0">>,
                     <<"3", "0", "0", "0", ".", "5", "0">>,
                     <<"1", "2">>, <<"a", "b", "c">>, <<>>}
        SumsCells == {CellAbsent, CellNull} \cup { CellNum(c) : c \in SumsNums }
                        \cup { CellStr(s) : s \in SumsStrs }
        SumsRows == [alcx_bought_usd : SumsCells, alcx_sold_usd : SumsCells]
        \* Rows after the first: the transform does not read them.
        SumsLaterRows == [alcx_bought_usd : {CellNum(10000)}, alcx_sold_usd : {CellNull}]
        SumsRowSeqs ==
            {<<>>} \cup { <<r>> \o tl : r \in SumsRows,
                          tl \in UNION { [1..n -> SumsLaterRows] : n \in 0..(MaxRows - 1) } }
    IN
    /\ running = FALSE
    /\ task = 0
    /\ tasks = <<>>
    /\ last_execution = None
    /\ next_execution = None
    /\ query_id = 1
    /\ sums_query_id \in SumsIds
    /\ embed_delay_seconds = DefaultDelay
    /\ execution_hour = 0
    /\ execution_minute = 0
    /\ now = 0
    /\ log = <<>>
    /\ fires = 0
    /\ scheduled = FALSE
    /\ cmd = IdleCmd
    /\ \E rows \in SumsRowSeqs :
         result = [query_id |-> sums_query_id, rows |-> rows]
    /\ embeds = <<>>
    /\ status = NoStatus

\* sums_embed = format_alcx_sums_embed(result)
SumsFormatCall ==
    /\ embeds = <<>>
    /\ embeds' = <<FormatAlcxSumsEmbed(result)>>
    /\ UNCHANGED <<result, now>>
    /\ FormatFrame

NextSums == SumsFormatCall

SpecSums == InitSums /\ [][NextSums]_vars

\* ------------------------------------------------------------- get_status

\* `x.isoformat() if x else None`
IsoOrNone(x) ==
    LET
        \* datetime.isoformat() of an instant, here its count of seconds in digits.
        IsoFormat(t) == ToString(t)
    IN
                IF x = None THEN NoneStr ELSE IsoFormat(x)

\* The fields of the runner the timer loop keeps.
Schedule == [last_execution |-> last_execution, next_execution |-> next_execution]

\* Mutant of StatusSchedule: get_status() recomputes and stores the next
\* execution time.
StatusSchedule_Refreshes(s, t) ==
    [s EXCEPT !.next_execution = CalcNext(t, execution_hour, execution_minute)]

\* What get_status() leaves in the fields of the runner: it assigns nothing.
StatusSchedule(s, t) == s

\* The dict get_status() returns.
StatusDict(s, r) ==
    LET
        \* str(self._running)
        StrBool(b) == IF b THEN "True" ELSE "False"
    IN
    [query_id       |-> ToString(query_id),
     last_execution |-> IsoOrNone(s.last_execution),
     next_execution |-> IsoOrNone(s.next_execution),
     running        |-> StrBool(r)]

\* A caller (the bot, a test) asks for the status between two task steps.
GetStatus ==
    /\ scheduled
    /\ Quiet
    /\ status' = StatusDict(Schedule, running)
    /\ last_execution' = StatusSchedule(Schedule, now).last_execution
    /\ next_execution' = StatusSchedule(Schedule, now).next_execution
    /\ UNCHANGED <<running, task, tasks, config, now, log, fires, scheduled,
                   cmd, result, embeds>>

\* One runner, its summary query configured, driven by start(), stop(),
\* get_status() and its tasks.
InitStatus ==
    /\ Init
    /\ scheduled
    /\ sums_query_id # None
    /\ embed_delay_seconds = 0
    /\ execution_hour # 0

NextStatus ==
    \/ Start
    \/ Stop
    \/ GetStatus
    \/ \E t \in 1..MaxTasks : TaskStep(t)

SpecStatus == InitStatus /\ [][NextStatus]_vars

\* ------------------------------------------------------------ _format_table
MaxColumnsDisplay == 8       \* MAX_COLUMNS_DISPLAY
MaxColumnWidth    == 30      \* MAX_COLUMN_WIDTH
MinColumnWidth    == 8       \* MIN_COLUMN_WIDTH
DefaultMaxRows    == 25      \* max_rows: int = 25

Min2(a, b) == IF a <= b THEN a ELSE b
SetMax(S)  == CHOOSE x \in S : \A y \in S : y <= x

\* ch * k
RECURSIVE Repeat(_, _)
Repeat(ch, k) ==
    IF k <= 0 THEN ""
    ELSE IF k = 1 THEN ch
    ELSE Repeat(ch, k \div 2) \o Repeat(ch, k - k \div 2)

\* str.ljust(w)
Ljust(s, w) == s \o Repeat(" ", w - Len(s))

\* sep.join(parts)
RECURSIVE JoinWith(_, _)
JoinWith(parts, sep) ==
    IF Len(parts) = 0 THEN ""
    ELSE IF Len(parts) = 1 THEN parts[1]
    ELSE parts[1] \o sep \o JoinWith(Tail(parts), sep)

\* seq[:k] for k >= 0
Take(seq, k) == SubSeq(seq, 1, Min2(k, Len(seq)))

\* row.get(col, "")
RowGet(row, col) == IF col \in DOMAIN row THEN row[col] ELSE ""

\* _format_cell_value on None and on the strings that are drawn: "" for None,
\* the minute for the ISO datetime, the string itself otherwise.
FormatCellValue(value) ==
    CASE value = NoneStr               -> ""
      [] value = "2024-01-01T12:00:00" -> "2024-01-01 12:00"
      [] OTHER                         -> value

\* col_widths[col] after the loop over rows[:max_rows]
ColWidth(col, rows, max_rows) ==
    LET
        Max2(a, b) == IF a >= b THEN a ELSE b
    IN
    LET shown == Take(rows, max_rows) IN
    SetMax({Max2(Len(col), MinColumnWidth)}
           \cup { Min2(Len(FormatCellValue(RowGet(shown[i], col))), MaxColumnWidth) :
                    i \in 1..Len(shown) })

\* Mutant of CutCell: a long value is cut without the ellipsis.
CutCell_NoEllipsis(val, w) == IF Len(val) > w THEN SubSeq(val, 1, w) ELSE val

\* `if len(val) > col_widths[col]: val = val[:col_widths[col] - 3] + "..."`
CutCell(val, w) ==
    IF Len(val) > w THEN SubSeq(val, 1, w - 3) \o "..." ELSE val

\* Mutant of HiddenRows: the count is that of the rows shown.
HiddenRows_Shown(rows, max_rows) == Min2(max_rows, Len(rows))

\* len(rows) - max_rows
HiddenRows(rows, max_rows) == Len(rows) - max_rows

\* table_rows of _format_table, before the final join.
TableRows(rows, columns, max_rows) ==
    LET display_columns == Take(columns, MaxColumnsDisplay)
        w(col)    == ColWidth(col, rows, max_rows)
        header    == JoinWith([j \in 1..Len(display_columns) |->
                                  Ljust(display_columns[j], w(display_columns[j]))],
                              " | ")
        separator == JoinWith([j \in 1..Len(display_columns) |->
                                  Repeat("-", w(display_columns[j]))], "-+-")
        shown     == Take(rows, max_rows)
        line(i)   == JoinWith([j \in 1..Len(display_columns) |->
                        LET col == display_columns[j] IN
                        Ljust(CutCell(FormatCellValue(RowGet(shown[i], col)), w(col)),
                              w(col))], " | ")
    IN  <<header, separator>>
        \o [i \in 1..Len(shown) |-> line(i)]
        \o (IF Len(rows) > max_rows
            THEN <<"\n... and " \o ToString(HiddenRows(rows, max_rows))
                     \o " more row(s)">>
            ELSE <<>>)
        \o (IF Len(columns) > Len(display_columns)
            THEN <<"(+ " \o ToString(Len(columns) - Len(display_columns))
                     \o " more column(s) hidden)">>
            ELSE <<>>)

\* _format_table
FormatTable(rows, columns, max_rows) ==
    IF Len(rows) = 0 \/ Len(columns) = 0 THEN "No data"
    ELSE JoinWith(TableRows(rows, columns, max_rows), "\n")

\* The arguments of a call of _format_table are at hand.
InitTable ==
    LET
        \* The tables that are drawn.  Rows have the keys c1 and c2, or c2 alone;
        \* the other columns are asked of them and read as "".
        TableColumnNames == <<"c1", "c2", "c3", "c4", "c5", "c6", "c7", "c8", "c9">>
        TableColumns == { Take(TableColumnNames, k) : k \in {0, 1, 2, 8, 9} }
        TableValues == {NoneStr, "ab", "abcdefghij", "2024-01-01T12:00:00",
                        "abcdefghijklmnopqrstuvwxyz0123456789"}
        TableRowValues == [c1 : TableValues, c2 : {"x"}] \cup [c2 : {"y"}]
        TableRowSeqs == UNION { [1..n -> TableRowValues] : n \in 0..MaxRows }
        TableMaxRows == {0, 1, DefaultMaxRows}
    IN
    /\ running = FALSE
    /\ task = 0
    /\ tasks = <<>>
    /\ last_execution = None
    /\ next_execution = None
    /\ query_id = 1
    /\ sums_query_id = None
    /\ embed_delay_seconds = DefaultDelay
    /\ execution_hour = 0
    /\ execution_minute = 0
    /\ now = 0
    /\ log = <<>>
    /\ fires = 0
    /\ scheduled = FALSE
    /\ cmd = IdleCmd
    /\ \E rows \in TableRowSeqs, columns \in TableColumns, m \in TableMaxRows :
         result = [query_id |-> query_id, rows |-> rows, columns |-> columns,
                   max_rows |-> m]
    /\ embeds = <<>>
    /\ status = NoStatus

\* table_text = _format_table(rows, columns, max_rows)
TableCall ==
    /\ embeds = <<>>
    /\ embeds' = <<FormatTable(result.rows, result.columns, result.max_rows)>>
    /\ UNCHANGED <<result, now>>
    /\ FormatFrame

NextTable == TableCall

SpecTable == InitTable /\ [][NextTable]_vars

\* ------------------------------------ execute_query_async and its sibling

\* The blocking method a non-blocking one hands to the executor.
BlockingOf(method) ==
    IF method = "execute_query_async" THEN "execute_query"
                                      ELSE "get_latest_results"

\* Mutant of AsyncArgs: the lambda leaves the timeout to the default.
AsyncArgs_DefaultTimeout(method, qid, timeout) ==
    IF method = "execute_query_async"
    THEN [qid |-> qid, timeout |-> QueryTimeout]
    ELSE [qid |-> qid, timeout |-> 0]

\* The arguments the lambda calls the blocking method with:
\* self.execute_query(query_id, parameters, timeout), self.get_latest_results(query_id).
AsyncArgs(method, qid, timeout) ==
    IF method = "execute_query_async"
    THEN [qid |-> qid, timeout |-> timeout]
    ELSE [qid |-> qid, timeout |-> 0]

\* `await loop.run_in_executor(None, f)`: the value f returned, or the
\* exception it raised, raised again in the caller.
RunInExecutor(r) == r

\* The timeouts callers pass: the default and a shorter one.
Timeouts == {QueryTimeout, QueryTimeout \div 2}

CallsMade(lg) ==
    Len(SelectSeq(lg, LAMBDA e : e.ev = "gw_call"))

\* A non-blocking call has handed its method to the executor and not returned.
PendingAsync ==
    Len(SelectSeq(log, LAMBDA e : e.ev = "async_call"))
        > Len(SelectSeq(log, LAMBDA e : e.ev = "async_ret"))

\* No call is in progress.
GwIdle ==
    IF log = <<>> THEN TRUE
    ELSE \/ log[Len(log)].ev = "async_ret"
         \/ log[Len(log)].ev = "gw_ret" /\ ~PendingAsync

\* A blocking method is called with some timeout and calls the SDK.
BlockingCall ==
    /\ GwIdle
    /\ CallsMade(log) < MaxCalls
    /\ \E method \in GwMethods, qid \in CmdQueryIds, timeout \in Timeouts :
         /\ method = "get_latest_results" => timeout = QueryTimeout
         /\ log' = log \o <<EvGwCall(method, qid,
                                     IF method = "execute_query" THEN timeout ELSE 0),
                            EvSdkCall(method, qid)>>
    /\ GwFrame

\* A non-blocking method is awaited: the executor's thread calls the blocking
\* method, which calls the SDK.
AsyncCall ==
    LET
        AsyncMethods == {"execute_query_async", "get_latest_results_async"}
        EvAsyncCall(method, qid, timeout) == Ev("async_call", method, qid, timeout, 0)
    IN
    /\ GwIdle
    /\ CallsMade(log) < MaxCalls
    /\ \E method \in AsyncMethods, qid \in CmdQueryIds, timeout \in Timeouts :
         LET args == AsyncArgs(method, qid, timeout) IN
         /\ method = "get_latest_results_async" => timeout = QueryTimeout
         /\ log' = log \o <<EvAsyncCall(method, qid,
                                        (IF method = "execute_query_async"
                                         THEN timeout ELSE 0)),
                            EvGwCall(BlockingOf(method), args.qid, args.timeout),
                            EvSdkCall(BlockingOf(method), args.qid)>>
    /\ GwFrame

\* The executor's future is done: the await returns or raises.
AsyncReturn ==
    LET
        EvAsyncRet(r)                     == Ev("async_ret", r.out, r.qid, r.x, 0)
    IN
    /\ IF log = <<>> THEN FALSE ELSE log[Len(log)].ev = "gw_ret"
    /\ PendingAsync
    /\ LET ret == log[Len(log)] IN
       log' = Append(log, EvAsyncRet(RunInExecutor(
                              [out |-> ret.kind, qid |-> ret.a, x |-> ret.b])))
    /\ GwFrame

\* A DuneClient on its own, called both ways.
InitAsync ==
    /\ Init
    /\ ~scheduled
    /\ embed_delay_seconds = DefaultDelay
    /\ now = 0

NextAsync == BlockingCall \/ AsyncCall \/ GwReturn \/ AsyncReturn

SpecAsync == InitAsync /\ [][NextAsync]_vars

\* ------------------------------------------------------ format_query_result
MaxEmbedDescription == 4096   \* MAX_EMBED_DESCRIPTION
MaxResultRows == 16           \* most rows of a QueryResult drawn as one table

\* The code fence of the description, three backquotes in the source; the
\* strings of this module have no backquote, and three tildes stand for it.
Fence == "~~~"

\* Mutant of Truncate: the text is returned whole.
Truncate_Whole(text, max_length) == text

\* _truncate
Truncate(text, max_length) ==
    IF Len(text) <= max_length THEN text
    ELSE SubSeq(text, 1, max_length - 3) \o "..."

\* format_query_result with the default title and colour: the description and
\* the footer of the embed.  res.columns is list(res.rows[0].keys()).
FormatQueryResult(res) ==
    IF Len(res.rows) = 0
    THEN [description |-> "*No results returned*",
          footer |-> "Query ID: " \o ToString(res.query_id) \o " | 0 rows"]
    ELSE LET table_text == FormatTable(res.rows, res.columns, DefaultMaxRows) IN
         [description |->
              IF Len(table_text) <= MaxEmbedDescription - 10
              THEN Fence \o "\n" \o table_text \o "\n" \o Fence
              ELSE Fence \o "\n" \o Truncate(table_text, MaxEmbedDescription - 30)
                       \o "\n...(truncated)\n" \o Fence,
          footer |-> "Query ID: " \o ToString(res.query_id) \o " | "
                        \o ToString(Len(res.rows)) \o " row(s)"]

\* A QueryResult is at hand: n equal rows, each with the same value under
\* every key.  The keys are eight or nine short names, or one name so long
\* that the table of a single row is just below or just above the limit.
InitResult ==
    LET ResultNames == <<"c1", "c2", "c3", "c4", "c5", "c6", "c7", "c8", "c9">>
        ResultColumns ==
            { Take(ResultNames, k) : k \in {1, 8, 9} }
                \cup { <<Repeat("n", k)>> : k \in {1361, 1362} }
        ResultValues == {"ab", "abcdefghijklmnopqrstuvwxyz0123456789"}
        Range(f) == { f[j] : j \in DOMAIN f }
    IN
    /\ running = FALSE
    /\ task = 0
    /\ tasks = <<>>
    /\ last_execution = None
    /\ next_execution = None
    /\ query_id = 1
    /\ sums_query_id = None
    /\ embed_delay_seconds = DefaultDelay
    /\ execution_hour = 0
    /\ execution_minute = 0
    /\ now = 0
    /\ log = <<>>
    /\ fires = 0
    /\ scheduled = FALSE
    /\ cmd = IdleCmd
    /\ \E n \in 0..MaxResultRows, columns \in ResultColumns, v \in ResultValues :
         result = [query_id |-> query_id,
                   rows |-> [i \in 1..n |-> [c \in Range(columns) |-> v]],
                   columns |-> columns]
    /\ embeds = <<>>
    /\ status = NoStatus

\* embed = format_query_result(result)
ResultCall ==
    /\ embeds = <<>>
    /\ embeds' = <<FormatQueryResult(result)>>
    /\ UNCHANGED <<result, now>>
    /\ FormatFrame

NextResult == ResultCall

SpecResult == InitResult /\ [][NextResult]_vars

\* --------------------------------------- _run_scheduler: `except Exception`
\* Mutant of RunningAfterError: the except clause only logs.
RunningAfterError_Kept(r) == r

\* `self._running = False` of the `except Exception` clause of _run_scheduler
RunningAfterError(r) == FALSE

\* An exception other than CancelledError is raised at the loop head, outside
\* _execute_query (which catches its own): the clause logs it, clears the flag
\* and the coroutine returns.
LoopRaises(t) ==
    /\ Resumable(t, "loop")
    /\ running
    /\ running' = RunningAfterError(running)
    /\ tasks' = SetTask(t, At(t, "done"))
    /\ log' = <<>>
    /\ UNCHANGED <<task, last_execution, next_execution, config, now, fires,
                   scheduled, cmd, result, embeds, status>>

\* A runner whose loop head may raise.
NextCrash ==
    \/ Start
    \/ Stop
    \/ \E t \in 1..MaxTasks : LoopRaises(t)
    \/ \E t \in 1..MaxTasks : TaskStep(t)

SpecCrash == InitStatus /\ [][NextCrash]_vars

\* ------------------------------------------------------------ DuneBot.on_ready
\* on_ready with a scheduled query configured: a new ScheduledQueryRunner is
\* built, bot._scheduler names it, and it is started.  The runner made before
\* is not stopped: its flag stays True and its task goes on.  From here on
\* running, task, last_execution and next_execution are the fields of the new
\* runner; an earlier runner's task reads a flag equal to its own (no runner is
\* stopped while the bot runs) and its writes are shown in the same variables.
OnReady ==
    /\ scheduled
    /\ Quiet
    /\ Len(tasks) < MaxTasks
    /\ LET made == [running |-> FALSE, task |-> 0, tasks |-> tasks] IN
       /\ running' = StartEffect(made).running
       /\ task' = StartEffect(made).task
       /\ tasks' = StartEffect(made).tasks
    /\ last_execution' = None
    /\ next_execution' = None
    /\ UNCHANGED <<config, now, log, fires, scheduled, cmd, result, embeds, status>>

\* The bot between its start and its shutdown: ready events (the first connect
\* and every reconnect) and the steps of the runners' tasks.  Of the ways the
\* event loop may interleave two tasks, those are followed in which a task in
\* a fire step is resumed until the step is over before another task runs.
NextReady ==
    LET
        ReadyTaskStep(t) ==
            /\ \A u \in TaskIds \ {t} : tasks[u].pc \notin FirePcs \cup {"woke"}
            /\ \/ TaskBegin(t)
               \/ LoopIter(t)
               \/ SleepReturn(t)
               \/ Fire(t)
               \/ QueryReturn(t)
               \/ SendNoticeReturn(t)
               \/ SendUnitReturn(t)
               \/ DelayReturn(t)
               \/ SendSingleReturn(t)
               \/ SendErrReturn(t)
               \/ SumsQueryReturn(t)
               \/ SendSumsReturn(t)
               \/ SendSumsErrReturn(t)
    IN
    \/ OnReady
    \/ \E t \in 1..MaxTasks : ReadyTaskStep(t)

SpecReady == InitStatus /\ [][NextReady]_vars

\* ------------------------------------------------- reading the log (claims)
IsPrefix(a, b) == Len(a) <= Len(b) /\ a = SubSeq(b, 1, Len(a))

IsDeliveryEv(e) ==
    \/ e.ev = "send" /\ e.kind \in {"notice", "unit"}
    \/ e.ev = "send_ret"
    \/ e.ev = "wait"

IsFormatOk(e) == e.ev = "format" /\ e.kind = "ok"

\* Index of the event that yields the primary embeds, 0 when there is none.
FormatIdx ==
    IF \E i \in 1..Len(log) : IsFormatOk(log[i])
    THEN CHOOSE i \in 1..Len(log) :
            IsFormatOk(log[i]) /\ \A j \in 1..(i - 1) : ~IsFormatOk(log[j])
    ELSE 0

\* Index of the last event of the delivery that follows FormatIdx.
DeliveryEndIdx ==
    CHOOSE k \in FormatIdx..Len(log) :
        /\ \A j \in (FormatIdx + 1)..k : IsDeliveryEv(log[j])
        /\ k = Len(log) \/ ~IsDeliveryEv(log[k + 1])

\* The delivery of the latest fire step or command: its sends, their outcomes
\* and its waits, in order.
Delivery == SubSeq(log, FormatIdx + 1, DeliveryEndIdx)

DeliveryN == log[FormatIdx].a      \* number of display units delivered
DeliveryBy == log[FormatIdx].t     \* who delivers

Completed == \E i \in 1..Len(log) : log[i].ev = "completed"

\* The delivery with every outcome read as a success.
AllOk(seq) ==
    [i \in 1..Len(seq) |->
        IF seq[i].ev = "send_ret" THEN EvSendRet("ok", seq[i].t) ELSE seq[i]]

NoFailure(seq) == \A i \in 1..Len(seq) : seq[i] # EvSendRet("fail", seq[i].t)

\* What a delivery of n units with delay d to a sink that always succeeds is
\* to consist of: units 1..k, each sent and returned, a wait before each but
\* the first.
RECURSIVE ExpectedUnits(_, _, _)
ExpectedUnits(k, d, t) ==
    IF k = 0 THEN <<>>
    ELSE IF k = 1 THEN <<EvSend("unit", 1, 0, t), EvSendRet("ok", t)>>
    ELSE ExpectedUnits(k - 1, d, t)
            \o <<EvWait(d, t), EvSend("unit", k, 0, t), EvSendRet("ok", t)>>

ExpectedDelivery(n, d, t) ==
    IF n = 1 THEN ExpectedUnits(1, d, t)
    ELSE <<EvSend("notice", n, d, t), EvSendRet("ok", t)>> \o ExpectedUnits(n, d, t)

UnitFailedAt(seq, i) ==
    \E j \in 1..(Len(seq) - 1) :
        /\ seq[j] = EvSend("unit", i, 0, seq[j].t)
        /\ seq[j + 1] = EvSendRet("fail", seq[j].t)

SendsOf(seq) == SelectSeq(seq, LAMBDA e : e.ev = "send")
SendsBy(seq, t) == SelectSeq(seq, LAMBDA e : e.ev = "send" /\ e.t = t)

\* ------------------------------------------------------------------ claims

\* C1: on a sink where every send succeeds, a delivery of one unit is that
\* one send and nothing else; a delivery of n > 1 units is the progress
\* notice stating n and the delay, then the units 1..n in order, each sent
\* once after the previous send returned, with one wait of the delay before
\* each unit but the first.
C1_DeliveryOrder ==
    (FormatIdx # 0 /\ NoFailure(Delivery)) =>
        LET want == ExpectedDelivery(DeliveryN, embed_delay_seconds, DeliveryBy) IN
        /\ IsPrefix(Delivery, want)
        /\ Completed => Delivery = want
        /\ Len(Delivery) < Len(want) => DeliveryEndIdx = Len(log)

C1_Witness ==
    /\ FormatIdx # 0
    /\ DeliveryN = MaxUnits
    /\ Completed
    /\ NoFailure(Delivery)
    /\ Len(Delivery) = 2 + 3 * MaxUnits - 1

\* C2: in a delivery of n > 1 units whose notice was sent, the failure of a
\* unit's send changes nothing in what follows: whatever the outcomes, the
\* sends are units 1..n in order, each once, each but the first after a wait,
\* and nothing else happens before the last unit's send has returned.
C2_ContinueAfterFailure ==
    (/\ FormatIdx # 0
     /\ DeliveryN > 1
     /\ Len(Delivery) >= 2
     /\ Delivery[2] = EvSendRet("ok", DeliveryBy)) =>
        LET want == ExpectedDelivery(DeliveryN, embed_delay_seconds, DeliveryBy) IN
        /\ IsPrefix(AllOk(Delivery), want)
        /\ Completed => Len(Delivery) = Len(want)
        /\ Len(Delivery) < Len(want) => DeliveryEndIdx = Len(log)

C2_Witness ==
    /\ FormatIdx # 0
    /\ DeliveryN = 3
    /\ Completed
    /\ UnitFailedAt(Delivery, 2)
    /\ \E j \in 1..Len(Delivery) : Delivery[j] = EvSend("unit", 3, 0, DeliveryBy)

\* C3 (as claimed): a unit's failed send, for any number of units, is never
\* followed by the error handler: no second channel lookup, no error unit.
C3_UnitFailureOnlyLogged ==
    \A i \in 1..(Len(log) - 1) :
        (/\ log[i].ev = "send" /\ log[i].kind = "unit"
         /\ log[i + 1] = EvSendRet("fail", log[i].t)) =>
            \A j \in (i + 2)..Len(log) :
                /\ ~(log[j].ev = "send" /\ log[j].kind = "error")
                /\ ~(log[j].ev = "resolve" /\ log[j].a = 2)

\* C4: start() called while running changes nothing of the runner and creates
\* no task; start() called while idle sets running and creates exactly one
\* task, not yet run, which self._task names.  No step creates a task
\* otherwise.
C4_StartInv ==
    LET s == StartEffect(Runner) IN
    IF running
    THEN s = Runner
    ELSE /\ s.running
         /\ Len(s.tasks) = Len(tasks) + 1
         /\ SubSeq(s.tasks, 1, Len(tasks)) = tasks
         /\ s.tasks[Len(s.tasks)] = NewTask
         /\ s.task = Len(s.tasks)

C4_StartOnce ==
    /\ []C4_StartInv
    /\ [][Len(tasks') # Len(tasks) =>
            /\ ~running
            /\ running'
            /\ Len(tasks') = Len(tasks) + 1
            /\ task' = Len(tasks')]_vars

C4_Witness ==
    /\ running
    /\ Len(tasks) = MaxTasks
    /\ task = MaxTasks
    /\ tasks[task].pc = "new"

\* C5: stop() leaves running false from every state; a second stop() changes
\* nothing more, nor does a stop() before any start(); and a task that
\* stop() found waiting for its fire time never goes on to a fire step.
C5_StopInv ==
    LET s == StopEffect(Runner) IN
    /\ ~s.running
    /\ StopEffect(s) = s
    /\ task = 0 => s = Runner
    /\ ~running /\ (task # 0 => tasks[task].stopped) => s = Runner

C5_StopCancelsWait ==
    /\ []C5_StopInv
    /\ [][\A t \in TaskIds :
            (tasks[t].stopped /\ tasks[t].pc = "sleep") =>
                tasks'[t].pc \in {"sleep", "done"}]_vars

C5_Witness ==
    \E t \in TaskIds :
        /\ tasks[t].stopped
        /\ tasks[t].pc = "sleep"
        /\ ~running
        /\ fires >= 1

\* C6 (as claimed): a fire step that stop() interrupts in its delivery still
\* attempts every remaining unit before the task ends.
C6_CompletesSendsBeforeCancel ==
    [][\A t \in TaskIds :
        (/\ tasks[t].stopped
         /\ tasks[t].pc \in {"send_notice", "send_unit", "delay"}
         /\ tasks'[t].pc = "done") =>
            Len(SelectSeq(log, LAMBDA e : e.ev = "send" /\ e.kind = "unit"
                                           /\ e.t = t)) = tasks[t].n]_vars

\* C6 (amended): a fire step that stop() interrupts makes no further call:
\* the task stays at the await it was at until CancelledError ends it there,
\* and it starts no send after the stop().
C6_StopAbandonsFire ==
    [][\A t \in TaskIds :
        (tasks[t].stopped /\ tasks[t].pc \in FirePcs) =>
            /\ tasks'[t].pc \in {tasks[t].pc, "done"}
            /\ Len(SendsBy(log', t)) <= Len(SendsBy(log, t))]_vars

C6_Witness ==
    \E t \in TaskIds :
        /\ tasks[t].stopped
        /\ tasks[t].pc = "delay"
        /\ tasks[t].n = 3
        /\ tasks[t].i = 2

\* C7: _calculate_next_execution returns the first instant strictly after
\* `now` whose time of day is the configured hour:minute:00 -- today's if it
\* is still to come, tomorrow's otherwise, also when `now` is exactly the
\* configured time -- and never more than 24 hours after `now`.
C7_NextIsFirstAfterNow ==
    next_execution # None =>
        LET cfg   == execution_hour * HourSeconds + execution_minute * MinuteSeconds
            today == now \div DaySeconds
        IN  /\ next_execution > now
            /\ next_execution % DaySeconds = cfg
            /\ next_execution - DaySeconds <= now
            /\ next_execution - now <= DaySeconds
            /\ next_execution \div DaySeconds =
                   IF now % DaySeconds < cfg THEN today ELSE today + 1

C7_Witness ==
    /\ next_execution # None
    /\ now % DaySeconds = ExecSeconds
    /\ next_execution = now + DaySeconds
    /\ execution_hour = 14
    /\ execution_minute = 30

\* C8: a fire step that finds no channel does nothing else -- no query, no
\* send, no second lookup -- and returns to the loop head, whose next pass
\* computes the next fire time from the clock.
C8_Skipped(t) == log = <<EvResolve(FALSE, 1, t)>>

C8_UnresolvedSkipsFire ==
    /\ [](\A t \in TaskIds :
            (log # <<>> /\ log[1] = EvResolve(FALSE, 1, t)) =>
                /\ C8_Skipped(t)
                /\ tasks[t].pc = "loop"
                /\ ~tasks[t].must_cancel)
    /\ [][\A t \in TaskIds :
            (C8_Skipped(t) /\ tasks'[t] # tasks[t]) =>
                /\ running
                /\ tasks'[t].pc \in {"sleep", "woke"}
                /\ next_execution' = CalcNext(now, execution_hour, execution_minute)
                /\ next_execution' > now]_vars

C8_Witness ==
    \E t \in TaskIds :
        /\ C8_Skipped(t)
        /\ tasks[t].pc = "loop"
        /\ last_execution = now
        /\ fires = 1

\* C9: in a fire step whose primary query call raises (Failure, Timeout or
\* anything else) and whose handler finds the channel, the sends are exactly
\* one error embed carrying the primary query id; no result unit, notice or
\* summary is sent.
C9_PrimaryFailed(t) ==
    /\ Len(log) >= 4
    /\ log[2] = EvQuery(query_id, t)
    /\ log[3].ev = "query_ret" /\ log[3].kind \in QueryErrors
    /\ log[4] = EvResolve(TRUE, 2, t)

C9_OneErrorUnit ==
    \A t \in TaskIds :
        C9_PrimaryFailed(t) =>
            /\ SendsOf(log) = <<EvSend("error", query_id, MsgUnderlying, t)>>
            /\ \A k \in 1..Len(log) : log[k].ev \notin {"format", "completed"}
            /\ Len(SelectSeq(log, LAMBDA e : e.ev = "query")) = 1

C9_Witness ==
    \E t \in TaskIds :
        /\ C9_PrimaryFailed(t)
        /\ log[3].kind = "Timeout"
        /\ log[Len(log)] = EvSendRet("ok", t)
        /\ tasks[t].pc = "loop"

\* C10: no outcome of a fire step ends the task: while the runner stays
\* running, its task in a fire step comes back to the loop head, a task
\* leaves a fire step for nowhere else unless stop() was called on it, and
\* the loop head computes the next fire time and waits for it (or fires, if
\* that time has passed at the second clock read).
C10_LoopSurvivesFire ==
    /\ (running /\ task # 0 /\ tasks[task].pc \in FirePcs)
          ~> (~running \/ tasks[task].pc = "loop")
    /\ (running /\ task # 0 /\ tasks[task].pc = "loop")
          ~> (~running \/ tasks[task].pc = "sleep" \/ tasks[task].pc \in FirePcs)
    /\ [][\A t \in TaskIds :
            /\ (tasks[t].pc \in FirePcs /\ tasks'[t].pc \notin FirePcs) =>
                  \/ tasks'[t].pc = "loop"
                  \/ tasks'[t].pc = "done" /\ tasks[t].stopped
            /\ (tasks[t].pc = "loop" /\ tasks'[t].pc # "loop") =>
                  /\ tasks'[t].pc \in {"sleep", "woke"}
                  /\ next_execution' = CalcNext(now, execution_hour, execution_minute)]_vars

C10_Witness ==
    \E t \in TaskIds :
        /\ tasks[t].pc = "loop"
        /\ ~tasks[t].stopped
        /\ running
        /\ Len(log) >= 2
        /\ log[Len(log) - 1] = EvSend("error", query_id, MsgUnderlying, t)
        /\ log[Len(log)] = EvSendRet("fail", t)

\* C11: the summary query is called only once the primary delivery is over
\* (every unit's send has returned and the completion is logged); when its
\* result is formatted, the one summary embed is sent, to the channel the
\* units went to, and nothing follows it; without a summary query id the
\* fire step ends at the completion of the primary delivery.
C11_UnitSends(seq) == SelectSeq(seq, LAMBDA e : e.ev = "send" /\ e.kind = "unit")

C11_SummaryAfterPrimary ==
    \A k \in 1..Len(log) :
        (log[k].ev = "completed" /\ log[k].t >= 1) =>
            LET t    == log[k].t
                pre  == SubSeq(log, 1, k - 1)
                post == SubSeq(log, k + 1, Len(log))
            IN  /\ Len(C11_UnitSends(pre)) = log[k].a
                /\ log[k - 1].ev = "send_ret"
                /\ Len(SelectSeq(pre, LAMBDA e : e.ev = "query")) = 1
                /\ C11_UnitSends(post) = <<>>
                /\ IF sums_query_id \in SumsIds
                   THEN /\ post # <<>>
                        /\ post[1] = EvQuery(sums_query_id, t)
                        /\ Len(SelectSeq(post, LAMBDA e : e.ev = "query")) = 1
                        /\ (Len(post) >= 3 /\ post[3] = EvFormat("ok", 1, t)) =>
                              /\ Len(post) >= 4
                              /\ post[4] = EvSend("sums", sums_query_id, 0, t)
                              /\ Len(SelectSeq(post, LAMBDA e :
                                     e.ev = "send" /\ e.kind = "sums")) = 1
                              /\ (Len(post) >= 5 /\ post[5] = EvSendRet("ok", t))
                                    => Len(post) = 5
                        /\ \A j \in 1..Len(post) :
                              (post[j].ev = "send" /\ post[j].kind = "sums") => j = 4
                   ELSE post = <<>>

C11_Witness ==
    \E t \in TaskIds :
        /\ Completed
        /\ FormatIdx # 0 /\ DeliveryN = 2
        /\ Len(log) >= 2
        /\ log[Len(log) - 1] = EvSend("sums", sums_query_id, 0, t)
        /\ log[Len(log)] = EvSendRet("ok", t)
        /\ tasks[t].pc = "loop"

\* C12: a failure of the summary step -- its query, the formatting of its
\* result or the send of its embed -- is followed by one send of an error
\* embed for the summary query and by nothing else: the handler of the
\* primary step is not entered (no second channel lookup, no error embed for
\* the primary query), and whatever the outcome of the error embed's send
\* the task is back at the loop head.
C12_IsSumsFailure(post, f, t) ==
    \/ f = 2 /\ post[f].ev = "query_ret" /\ post[f].kind \in QueryErrors
    \/ f = 3 /\ post[f] = EvFormat("raise", 0, t)
    \/ f = 5 /\ post[f] = EvSendRet("fail", t) /\ post[f - 1].kind = "sums"

C12_SummaryFailureIsolated ==
    \A k \in 1..Len(log) :
        (log[k].ev = "completed" /\ log[k].t >= 1) =>
            LET t    == log[k].t
                post == SubSeq(log, k + 1, Len(log))
            IN  /\ \A j \in 1..Len(log) :
                      /\ log[j] # EvResolve(TRUE, 2, t)
                      /\ log[j] # EvResolve(FALSE, 2, t)
                      /\ ~(log[j].ev = "send" /\ log[j].kind = "error")
                /\ \A f \in 1..Len(post) :
                      C12_IsSumsFailure(post, f, t) =>
                          /\ Len(post) > f
                          /\ post[f + 1] = EvSend("sums_error", sums_query_id,
                                                  MsgUnderlying, t)
                          /\ Len(SelectSeq(post, LAMBDA e : e.ev = "send"
                                     /\ e.kind = "sums_error")) = 1
                          /\ Len(post) <= f + 2
                          /\ Len(post) = f + 2 =>
                                /\ post[f + 2].ev = "send_ret"
                                /\ tasks[t].pc = "loop"
                /\ (\E j \in 1..Len(post) : post[j].kind = "sums_error") =>
                      \E f \in 1..Len(post) : C12_IsSumsFailure(post, f, t)

C12_Witness ==
    \E t \in TaskIds :
        /\ Completed
        /\ Len(log) >= 4
        /\ log[Len(log) - 3].kind = "sums"
        /\ log[Len(log) - 2] = EvSendRet("fail", t)
        /\ log[Len(log) - 1] = EvSend("sums_error", sums_query_id, MsgUnderlying, t)
        /\ log[Len(log)] = EvSendRet("fail", t)
        /\ tasks[t].pc = "loop"

\* C13: execute_query turns every failure of the SDK call into the error
\* taxonomy: a TimeoutError into DuneTimeoutError, any other exception into
\* DuneQueryError with a message that embeds the exception's own; both carry
\* the query id of the call, and DuneTimeoutError is a DuneQueryError, so a
\* handler for DuneQueryError catches whatever execute_query raises.
C13_ExecuteQueryErrors ==
    /\ IsA("DuneTimeoutError", "DuneQueryError")
    /\ ~IsA("DuneQueryError", "DuneTimeoutError")
    /\ \A j \in 4..Len(log) :
          (log[j].ev = "gw_ret" /\ log[j - 3].kind = "execute_query") =>
              LET call == log[j - 3]
                  sdk  == log[j - 1]
                  ret  == log[j]
              IN  /\ call.ev = "gw_call" /\ sdk.ev = "sdk_ret"
                  /\ sdk.kind = "ok" <=> ret.kind = "ok"
                  /\ sdk.kind = "TimeoutError" <=> ret.kind = "DuneTimeoutError"
                  /\ sdk.kind \notin {"ok", "TimeoutError"} =>
                        /\ ret.kind = "DuneQueryError"
                        /\ MsgEmbeds(ret.b, sdk.a)
                  /\ ret.kind # "ok" =>
                        /\ ret.a = call.a
                        /\ IsA(ret.kind, "DuneQueryError")

C13_Witness ==
    /\ Len(log) = 8
    /\ log[1].kind = "execute_query"
    /\ log[3].kind = "TimeoutError"
    /\ log[4].kind = "DuneTimeoutError" /\ log[4].a = 7
    /\ log[5].kind = "execute_query"
    /\ log[7].kind = "RuntimeError" /\ log[7].a = 2
    /\ log[8].kind = "DuneQueryError" /\ log[8].a = 1

\* C14 (as claimed): get_latest_results raises DuneTimeoutError with the
\* query id when the SDK call times out, DuneQueryError with the query id
\* on any other failure.
C14_LatestErrorsLikeExecute ==
    \A j \in 4..Len(log) :
        (log[j].ev = "gw_ret" /\ log[j - 3].kind = "get_latest_results") =>
            LET call == log[j - 3]
                sdk  == log[j - 1]
                ret  == log[j]
            IN  /\ sdk.kind = "TimeoutError" =>
                      ret.kind = "DuneTimeoutError" /\ ret.a = call.a
                /\ sdk.kind \notin {"ok", "TimeoutError"} =>
                      ret.kind = "DuneQueryError" /\ ret.a = call.a

\* C15: a call of execute_query or get_latest_results makes one call of the
\* SDK, for the query id it was given, and returns what that call gave,
\* whatever earlier calls gave; a fire step that found its channel calls
\* the gateway once for the primary query, with the configured id and a
\* timeout of 60.
C15_GwCalls(seq) == SelectSeq(seq, LAMBDA e : e.ev = "gw_call")
C15_SdkCalls(seq) == SelectSeq(seq, LAMBDA e : e.ev = "sdk_call")

C15_SingleAttempt ==
    /\ \A j \in 1..Len(log) :
          /\ log[j].ev = "gw_call" =>
                /\ Len(log) > j
                /\ log[j + 1] = Ev("sdk_call",
                                   IF log[j].kind = "execute_query"
                                   THEN "run_query" ELSE "get_latest_result",
                                   log[j].a, 0, 0)
          /\ log[j].ev = "sdk_call" => log[j - 1].ev = "gw_call"
          /\ log[j].ev = "gw_ret" =>
                /\ log[j - 1].ev = "sdk_ret" /\ log[j - 2].ev = "sdk_call"
                /\ log[j].kind = "ok" =>
                      log[j - 1].kind = "ok" /\ log[j].b = log[j - 1].a
    /\ Len(C15_SdkCalls(log)) = Len(C15_GwCalls(log))
    /\ \A t \in TaskIds :
          (log # <<>> /\ log[1] = EvResolve(TRUE, 1, t)) =>
              /\ Len(log) >= 2
              /\ log[2] = Ev("query", "call", query_id, QueryTimeout, t)
              /\ \A j \in 3..Len(log) :
                    log[j].ev = "query" => log[j].a = sums_query_id

C15_Witness ==
    /\ Len(log) = 8
    /\ log[1] = EvGwCall("get_latest_results", 7, 0)
    /\ log[3].kind = "ok" /\ log[3].a = 2
    /\ log[5] = log[1]
    /\ log[7].kind = "RuntimeError"
    /\ log[8].kind = "DuneQueryError"

\* C16: format_query_result_rows never returns an empty list: a result with
\* N >= 1 rows gives N embeds, the i-th being what the i-th row gives when
\* formatted alone but for its footer, which names the query id and
\* "Row i of N"; an empty result gives the one "no results" embed, whose
\* footer names the query id and "0 rows".
C16_Alone(i, t) ==
    FormatQueryResultRows([query_id |-> result.query_id,
                           rows |-> <<result.rows[i]>>], t)[1]

C16_OneUnitPerRow ==
    embeds # <<>> =>
        LET N == Len(result.rows)
            q == ToString(result.query_id)
        IN  IF N = 0
            THEN /\ Len(embeds) = 1
                 /\ embeds[1].description = "*No results returned*"
                 /\ embeds[1].fields = <<>>
                 /\ embeds[1].footer = "Query ID: " \o q \o " | 0 rows"
            ELSE /\ Len(embeds) = N
                 /\ \A i \in 1..N :
                       /\ embeds[i].footer =
                              "Query ID: " \o q \o " | Row " \o ToString(i)
                                  \o " of " \o ToString(N)
                       /\ [embeds[i] EXCEPT !.footer = ""] =
                              [C16_Alone(i, embeds[i].timestamp) EXCEPT !.footer = ""]
                       /\ embeds[i].fields # <<>>

C16_Witness ==
    /\ Len(result.rows) = 2
    /\ Len(embeds) = 2
    /\ result.rows[1] \in LinkRows
    /\ result.rows[2] \in AmountRows
    /\ embeds[2].footer = "Query ID: 7 | Row 2 of 2"

\* C17 (as claimed): an embed has the field "ALCX Sold" exactly when the
\* row's sold symbol is "ALCX", the field "ALCX Bought" exactly when only
\* the bought symbol is, and so never both.
C17_Names(e) == { e.fields[k].name : k \in 1..Len(e.fields) }

C17_AlcxFieldBySymbol ==
    (embeds # <<>> /\ result.rows # <<>>) =>
        \A i \in 1..Len(embeds) :
            LET row == result.rows[i]
                ns  == C17_Names(embeds[i])
            IN  /\ "ALCX Sold" \in ns <=> row.token_sold_symbol = "ALCX"
                /\ "ALCX Bought" \in ns <=>
                      (row.token_sold_symbol # "ALCX"
                          /\ row.token_bought_symbol = "ALCX")
                /\ ~("ALCX Sold" \in ns /\ "ALCX Bought" \in ns)

\* C18: the "Txn" field is "unknown" when the hash or the chain is None or
\* the chain, lower-cased, has no explorer; otherwise it is the markdown
\* link whose text is the hash and whose target is the chain's explorer URL
\* followed by the hash.
C18_Base(chain) ==
    CASE chain \in {"ethereum", "Ethereum"} -> "https://etherscan.io/tx/"
      [] chain \in {"arbitrum", "ARBITRUM"} -> "https://arbiscan.io/tx/"
      [] chain = "optimism" -> "https://optimistic.etherscan.io/tx/"
      [] OTHER -> NoneStr

C18_TxLink ==
    (embeds # <<>> /\ result.rows # <<>>) =>
        \A i \in 1..Len(embeds) :
            LET row == result.rows[i]
                txn == embeds[i].fields[Len(embeds[i].fields)]
            IN  /\ txn.name = "Txn"
                /\ IF \/ row.tx_hash = NoneStr
                      \/ row.blockchain = NoneStr
                      \/ C18_Base(row.blockchain) = NoneStr
                   THEN txn.value = "unknown"
                   ELSE txn.value = "[" \o row.tx_hash \o "]("
                            \o C18_Base(row.blockchain) \o row.tx_hash \o ")"

C18_Witness ==
    /\ Len(embeds) = 2
    /\ result.rows[1].blockchain = "ARBITRUM"
    /\ embeds[1].fields[4].value = "[0xabc](https://arbiscan.io/tx/0xabc)"
    /\ result.rows[2].blockchain = "polygon"
    /\ result.rows[2].tx_hash = "0xabc"
    /\ embeds[2].fields[4].value = "unknown"

\* C19 (as claimed): a second call of format_query_result_rows on the same
\* QueryResult returns what the first returned, in every component.
C19_SameOutputTwice ==
    [][(embeds # <<>> /\ result' = result) => embeds' = embeds]_vars

\* C20 (as claimed): whoever shows a query error to the user -- the fire
\* step, /dune or /dune_latest -- shows the "try again later / check
\* directly" message for a timeout and the underlying message for any other
\* DuneQueryError.
C20_TimeoutHintEverywhere ==
    \A j \in 2..Len(log) :
        (/\ log[j].ev = "send"
         /\ log[j].kind = "error"
         /\ \E k \in 1..(j - 1) :
               /\ log[k].ev = "query_ret"
               /\ log[k].kind \in {"Timeout", "Failure"}
               /\ \A m \in (k + 1)..(j - 1) : log[m].ev = "resolve") =>
            LET err == CHOOSE k \in 1..(j - 1) : log[k].ev = "query_ret" IN
            /\ log[err].kind = "Timeout" => log[j].b = MsgTimeoutHint
            /\ log[err].kind = "Failure" => log[j].b = MsgUnderlying

\* C21: the summary transform returns one display unit.  For an empty result
\* it is the "no data" unit carrying the query id.  Otherwise it has exactly
\* the fields 'ALCX Bought (USD)' and 'ALCX Sold (USD)', in which a number or
\* a numeric string of the first row stands as currency with thousands
\* separators and two decimals, and an absent, null or non-numeric column as
\* 'N/A'.
C21_Currency(cell) ==
    CASE cell = CellNum(0)         -> "$0.00"
      [] cell = CellNum(10000)     -> "$100.00"
      [] cell = CellNum(850025)    -> "$8,500.25"
      [] cell = CellNum(1500050)   -> "$15,000.50"
      [] cell = CellNum(123456789) -> "$1,234,567.89"
      [] cell = CellStr(<<"5", "0", "0", "0", ".", "0", "0">>) -> "$5,000.00"
      [] cell = CellStr(<<"3", "0", "0", "0", ".", "5", "0">>) -> "$3,000.50"
      [] cell = CellStr(<<"1", "2">>) -> "$12.00"
      [] OTHER -> "N/A"

C21_SummaryUnit ==
    embeds # <<>> =>
        /\ Len(embeds) = 1
        /\ IF result.rows = <<>>
           THEN /\ embeds[1].description = "No data available"
                /\ embeds[1].fields = <<>>
                /\ \E i \in 1..Len(embeds[1].footer) :
                     embeds[1].footer[i] = "Query ID: " \o ToString(result.query_id)
           ELSE /\ Len(embeds[1].fields) = 2
                /\ embeds[1].fields[1].name = "ALCX Bought (USD)"
                /\ embeds[1].fields[1].value
                     = C21_Currency(result.rows[1].alcx_bought_usd)
                /\ embeds[1].fields[2].name = "ALCX Sold (USD)"
                /\ embeds[1].fields[2].value
                     = C21_Currency(result.rows[1].alcx_sold_usd)

C21_Witness ==
    /\ embeds # <<>>
    /\ Len(result.rows) = MaxRows
    /\ result.rows[1].alcx_bought_usd = CellNum(123456789)
    /\ result.rows[1].alcx_sold_usd = CellStr(<<"a", "b", "c">>)
    /\ embeds[1].fields[1].value = "$1,234,567.89"
    /\ embeds[1].fields[2].value = "N/A"

\* Some task takes a step of the timer loop: it leaves the loop head or the
\* point where a fire step begins.
C22_LoopStep ==
    \E t \in TaskIds :
        /\ tasks[t].pc \in {"loop", "woke"}
        /\ tasks'[t].pc # tasks[t].pc

\* No task has run yet.
C22_NoLoopYet == \A t \in TaskIds : tasks[t].pc = "new"

\* C22 (as claimed): last_execution and next_execution change only in a step
\* of the timer loop, get_status() changes nothing of the runner, and as long
\* as no task has run both are None and running is false.
C22_ScheduleFrame ==
    /\ [][(last_execution' # last_execution \/ next_execution' # next_execution)
            => C22_LoopStep]_vars
    /\ [][status' # status =>
            UNCHANGED <<running, task, tasks, last_execution, next_execution,
                        config>>]_vars
    /\ [](C22_NoLoopYet =>
            last_execution = None /\ next_execution = None /\ ~running)

\* C22 (amended): last_execution and next_execution change only in a step of
\* the timer loop, get_status() changes nothing of the runner and reports the
\* fields as they are, as long as no task has run both are None, and until
\* start() is first called running is false.
C22_ScheduleFrameUntilStart ==
    /\ [][(last_execution' # last_execution \/ next_execution' # next_execution)
            => C22_LoopStep]_vars
    /\ [][status' # status =>
            /\ UNCHANGED <<running, task, tasks, last_execution,
                           next_execution, config>>
            /\ status'.last_execution = IsoOrNone(last_execution)
            /\ status'.next_execution = IsoOrNone(next_execution)]_vars
    /\ [](C22_NoLoopYet => last_execution = None /\ next_execution = None)
    /\ [](tasks = <<>> => ~running)

\* get_status() was called after a fire step and start() while a task waits.
C22_Witness ==
    /\ status.last_execution # NoneStr
    /\ status.next_execution # NoneStr
    /\ status.running = "False"
    /\ running
    /\ Len(tasks) = 2
    /\ tasks[2].pc = "sleep"

\* A timer-loop task that has neither finished nor been cancelled.
C23_Alive(t) == tasks[t].pc # "done" /\ ~tasks[t].must_cancel

\* C23: in every state the running value get_status() reports is "True"
\* exactly when some timer-loop task has neither finished nor been cancelled.
C23_RunningIffAlive ==
    StatusDict(Schedule, running).running = "True"
        <=> \E t \in TaskIds : C23_Alive(t)

\* stop() then start(): the cancelled task has not finished yet, the new one
\* has not run yet.
C23_Witness ==
    /\ Len(tasks) = 2
    /\ tasks[1].must_cancel
    /\ tasks[1].pc \in FirePcs
    /\ C23_Alive(2)
    /\ running

\* C24: whatever the interleaving of start(), stop() and wake-ups, at most
\* one task is past its first step and not finished, so at most one fire step
\* is in progress; and only the task self._task names changes the schedule
\* fields, no other task moving in that step.
C24_Active == { t \in TaskIds : tasks[t].pc \notin {"new", "done"} }

C24_SingleTimeline ==
    /\ [](Cardinality(C24_Active) <= 1)
    /\ [](Cardinality({ t \in TaskIds : tasks[t].pc \in FirePcs \cup {"woke"} }) <= 1)
    /\ [][(\/ last_execution' # last_execution
           \/ next_execution' # next_execution
           \/ fires' # fires) =>
            /\ task \in TaskIds
            /\ tasks'[task] # tasks[task]
            /\ \A u \in TaskIds \ {task} : tasks'[u] = tasks[u]]_vars

\* stop() during a fire step, then start(), and the new task has reached its
\* own fire step.
C24_Witness ==
    /\ Len(tasks) = 2
    /\ tasks[1].stopped
    /\ tasks[1].pc = "done"
    /\ tasks[2].pc \in FirePcs
    /\ fires = 2

\* The positions of the field called name in embed e.
C26_At(e, name) == { k \in 1..Len(e.fields) : e.fields[k].name = name }

\* C26 (as claimed): every per-row embed has exactly one field "Block Time",
\* one "Amount USD" and one "Txn", in that order, "N/A" (or "unknown" for the
\* link) standing for None; it has 3 fields when neither symbol is "ALCX" and
\* 4 otherwise.
C26_FieldsNeverDropped ==
    (embeds # <<>> /\ result.rows # <<>>) =>
        \A i \in 1..Len(embeds) :
            LET row == result.rows[i]
                e   == embeds[i]
            IN  /\ \E b \in C26_At(e, "Block Time"), a \in C26_At(e, "Amount USD"),
                      x \in C26_At(e, "Txn") :
                        /\ b < a /\ a < x
                        /\ C26_At(e, "Block Time") = {b}
                        /\ C26_At(e, "Amount USD") = {a}
                        /\ C26_At(e, "Txn") = {x}
                        /\ row.block_time = NoneStr => e.fields[b].value = "N/A"
                        /\ row.amount_usd = NoneStr => e.fields[a].value = "N/A"
                        /\ (row.tx_hash = NoneStr \/ row.blockchain = NoneStr)
                              => e.fields[x].value = "unknown"
                /\ Len(e.fields) =
                      IF row.token_sold_symbol # "ALCX"
                            /\ row.token_bought_symbol # "ALCX"
                      THEN 3 ELSE 4

\* A delivery seq of n units with delay d by t (a task, or 0 for a command
\* handler) is the one function of n, d and the outcomes of its sends: the
\* notice (for n > 1), then the units in order, a wait before each but the
\* first, whatever the outcomes of the units' sends; it stops early only
\* when the notice's send, or the only unit's, has failed.
C25_Shape(seq, n, d, t, completed, atEnd) ==
    LET want == ExpectedDelivery(n, d, t) IN
    /\ IsPrefix(AllOk(seq), want)
    /\ (Len(seq) >= 2 /\ n > 1 /\ seq[2] = EvSendRet("fail", t)) => Len(seq) = 2
    /\ (Len(seq) < Len(want) /\ ~atEnd) =>
            Len(seq) = 2 /\ seq[2] = EvSendRet("fail", t)
    /\ completed =>
            /\ Len(seq) = Len(want)
            /\ seq[2] = EvSendRet("ok", t)

\* C25: the deliveries of the /dune and /dune_latest handlers and those of
\* the fire step are the same function of the number of units, the delay and
\* the outcomes of the sends: same notice, same units in order, same waits,
\* same going on after a unit's failed send.
C25_HandlersMirrorFire ==
    FormatIdx # 0 =>
        /\ DeliveryBy = 0 => cmd.name \in CmdNames
        /\ DeliveryBy # 0 => DeliveryBy \in TaskIds
        /\ C25_Shape(Delivery, DeliveryN, embed_delay_seconds, DeliveryBy,
                     Completed, DeliveryEndIdx = Len(log))

\* /dune_latest has delivered three units, the second send having failed.
C25_Witness ==
    /\ cmd.name = "dune_latest"
    /\ cmd.pc = "done"
    /\ FormatIdx # 0
    /\ DeliveryN = 3
    /\ Completed
    /\ UnitFailedAt(Delivery, 2)
    /\ Len(Delivery) = Len(ExpectedDelivery(3, embed_delay_seconds, 0))

\* Reading a table text back: its lines, and the cells of a line.
C27_Cuts(s, ch) == { i \in 1..Len(s) : SubSeq(s, i, i) = ch }

\* The pieces of s between the occurrences of the character ch, in order.
C27_Pieces(s, ch) ==
    LET cuts   == C27_Cuts(s, ch)
        starts == {1} \cup { i + 1 : i \in cuts }
        end(a) == SetMax({a - 1} \cup { e \in a..Len(s) :
                            \A k \in a..e : k \notin cuts })
        nth(k) == CHOOSE a \in starts : Cardinality({ b \in starts : b < a }) = k - 1
    IN  [k \in 1..Cardinality(starts) |-> SubSeq(s, nth(k), end(nth(k)))]

C27_Contains(s, sub) ==
    \E i \in 1..(Len(s) - Len(sub) + 1) : SubSeq(s, i, i + Len(sub) - 1) = sub

\* What a drawn value is displayed as in a cell.
C27_Display(v) ==
    CASE v = NoneStr               -> ""
      [] v = "2024-01-01T12:00:00" -> "2024-01-01 12:00"
      [] OTHER                     -> v

C27_Value(row, col) == IF col \in DOMAIN row THEN C27_Display(row[col]) ELSE ""

\* C27: empty rows or columns give "No data".  Otherwise the table has a
\* header, a separator and one line for each of the first max_rows rows, each
\* with the first 8 columns at most, all of one length; it states the number
\* of hidden rows exactly when there are more than max_rows rows and the
\* number of hidden columns exactly when there are more than 8 columns; and a
\* cell is its value, padded to the column's width, or, when the value is
\* longer than that width, cut to the width and ending in "...".
C27_TableTruncation ==
    embeds # <<>> =>
        LET out   == embeds[1]
            rows  == result.rows
            cols  == result.columns
            m     == result.max_rows
            lines == C27_Pieces(out, "\n")
            shown == IF Len(rows) <= m THEN Len(rows) ELSE m
            ncols == IF Len(cols) <= MaxColumnsDisplay THEN Len(cols)
                     ELSE MaxColumnsDisplay
        IN  IF Len(rows) = 0 \/ Len(cols) = 0 THEN out = "No data"
            ELSE /\ Len(lines) = 2 + shown
                                   + (IF Len(rows) > m THEN 2 ELSE 0)
                                   + (IF Len(cols) > ncols THEN 1 ELSE 0)
                 /\ C27_Contains(out, "more row(s)") <=> Len(rows) > m
                 /\ Len(rows) > m =>
                      lines[2 + shown + 2]
                         = "... and " \o ToString(Len(rows) - m) \o " more row(s)"
                 /\ C27_Contains(out, "more column(s) hidden") <=> Len(cols) > ncols
                 /\ Len(cols) > ncols =>
                      lines[Len(lines)]
                         = "(+ " \o ToString(Len(cols) - ncols) \o " more column(s) hidden)"
                 /\ \A i \in 1..(2 + shown) : Len(lines[i]) = Len(lines[1])
                 /\ LET heads == C27_Pieces(lines[1], "|") IN
                    /\ Len(heads) = ncols
                    /\ \A i \in 1..shown :
                         LET cells == C27_Pieces(lines[2 + i], "|") IN
                         /\ Len(cells) = ncols
                         /\ \A j \in 1..ncols :
                              LET pad == (IF j > 1 THEN 1 ELSE 0)
                                           + (IF j < ncols THEN 1 ELSE 0)
                                  wd  == Len(heads[j]) - pad
                                  v   == C27_Value(rows[i], cols[j])
                                  c   == SubSeq(cells[j], IF j > 1 THEN 2 ELSE 1,
                                                (IF j > 1 THEN 1 ELSE 0) + wd)
                              IN  /\ Len(cells[j]) = Len(heads[j])
                                  /\ IF Len(v) > wd
                                     THEN c = SubSeq(v, 1, wd - 3) \o "..."
                                     ELSE SubSeq(c, 1, Len(v)) = v

\* Two rows of which one is shown, nine columns of which eight are, and a
\* value of 36 characters in a column 30 wide.
C27_Witness ==
    /\ embeds # <<>>
    /\ Len(result.rows) = 2
    /\ result.max_rows = 1
    /\ Len(result.columns) = 9
    /\ "c1" \in DOMAIN result.rows[1]
    /\ result.rows[1].c1 = "abcdefghijklmnopqrstuvwxyz0123456789"
    /\ C27_Contains(embeds[1], "abcdefghijklmnopqrstuvwxyz0... | x")
    /\ C27_Contains(embeds[1], "... and 1 more row(s)")
    /\ C27_Contains(embeds[1], "(+ 1 more column(s) hidden)")


\* ---------------------------------------------------------------------- C28
\* Completed blocking calls made by a caller directly (not by the executor),
\* and completed non-blocking calls, by the index of their first event.
C28_Blocking ==
    { i \in 1..Len(log) :
        /\ log[i].ev = "gw_call"
        /\ IF i = 1 THEN TRUE ELSE log[i - 1].ev # "async_call"
        /\ i + 3 <= Len(log)
        /\ log[i + 3].ev = "gw_ret" }

C28_Async ==
    { i \in 1..Len(log) :
        /\ log[i].ev = "async_call"
        /\ i + 5 <= Len(log)
        /\ log[i + 5].ev = "async_ret" }

\* The two calls were given the same query id (and timeout) and saw the same
\* behaviour of the SDK.
C28_SameCase(b, a) ==
    /\ BlockingOf(log[a].kind) = log[b].kind
    /\ log[a].a = log[b].a
    /\ log[a].b = log[b].b
    /\ log[a + 3] = log[b + 2]

C28_SameOutcome(b, a) ==
    /\ log[a + 5].kind = log[b + 3].kind
    /\ log[a + 5].a = log[b + 3].a
    /\ log[a + 5].b = log[b + 3].b

\* C28: for the same query id and the same behaviour of the SDK,
\* execute_query_async and get_latest_results_async return the same
\* QueryResult, or raise the same DuneQueryError or DuneTimeoutError with the
\* same message, as execute_query and get_latest_results.
C28_AsyncPreservesSemantics ==
    \A b \in C28_Blocking, a \in C28_Async :
        C28_SameCase(b, a) => C28_SameOutcome(b, a)

\* A blocking and a non-blocking execute_query with a timeout other than the
\* default both timed out in the SDK.
C28_Witness ==
    \E b \in C28_Blocking, a \in C28_Async :
        /\ C28_SameCase(b, a)
        /\ log[a].kind = "execute_query_async"
        /\ log[a].b # QueryTimeout
        /\ log[a + 5].kind = "DuneTimeoutError"


\* ---------------------------------------------------------------------- C29
\* The task woke with the fire time it computed missed: the clock is past
\* next_execution.
C29_WokeLate(t) ==
    /\ tasks[t].pc = "woke"
    /\ next_execution # None
    /\ now > next_execution

\* C29: a fire time that passes while the process is unavailable is skipped
\* rather than caught up: when the timer loop wakes after its computed fire
\* time has been missed, no fire step is executed for the missed time (the
\* loop goes back to compute the next scheduled time after the new 'now').
C29_MissedFireSkipped ==
    [][\A t \in TaskIds :
          (C29_WokeLate(t) /\ tasks'[t] # tasks[t]) =>
              /\ fires' = fires
              /\ last_execution' = last_execution
              /\ tasks'[t].pc \in {"loop", "done"}]_vars


\* ---------------------------------------------------------------------- C30
\* The step is a pass of the loop head that computed a next_execution.
C30_Computes ==
    \E t \in TaskIds :
        /\ tasks[t].pc = "loop"
        /\ running
        /\ tasks'[t].pc \in {"sleep", "woke"}

\* The step begins a fire step.
C30_Fires == fires' = fires + 1

\* A fire step has begun for the next_execution computed last.
C30_Fired ==
    /\ next_execution # None
    /\ last_execution # None
    /\ last_execution >= next_execution

\* Every fire step starts at or after the next_execution computed for it, and
\* is the first one for it.
C30_FireOncePerInstant ==
    C30_Fires =>
        /\ next_execution # None
        /\ now >= next_execution
        /\ ~C30_Fired

\* As claimed: each newly computed next_execution is strictly later than the
\* preceding last_execution and than the preceding next_execution.
C30_NoDoubleFire ==
    [][/\ C30_FireOncePerInstant
       /\ C30_Computes =>
            /\ last_execution # None => next_execution' > last_execution
            /\ next_execution # None => next_execution' > next_execution]_vars

\* C30: with a clock that never goes backwards and waits that never return
\* early, no scheduled instant fires twice: every fire step starts at or after
\* the next_execution computed for it, at most one fire step is executed per
\* computed next_execution, and each newly computed next_execution is strictly
\* later than the preceding last_execution, never earlier than the preceding
\* next_execution, and strictly later than it once a fire step has begun for it.
C30_NoDoubleFireOnceFired ==
    [][/\ C30_FireOncePerInstant
       /\ C30_Computes =>
            /\ last_execution # None => next_execution' > last_execution
            /\ next_execution # None => next_execution' >= next_execution
            /\ C30_Fired => next_execution' > next_execution]_vars

\* Two fire steps have begun, the second for a next_execution computed after
\* the first.
C30_Witness ==
    /\ fires = 2
    /\ C30_Fired
    /\ \E t \in TaskIds : tasks[t].pc \in FirePcs


\* ---------------------------------------------------------------------- C32
\* Entry f of the log is a failure of the primary step that is not caught
\* before the handler of the fire step: the primary query raised, the send of
\* the progress notice raised, or the send of the only unit raised.
C32_PrimaryFailure(f) ==
    \/ f = 3 /\ log[f].ev = "query_ret" /\ log[f].kind \in QueryErrors
    \/ /\ f >= 2
       /\ log[f].ev = "send_ret" /\ log[f].kind = "fail"
       /\ log[f - 1].ev = "send" /\ log[f - 1].kind = "notice"
    \/ /\ f >= 3
       /\ log[f].ev = "send_ret" /\ log[f].kind = "fail"
       /\ log[f - 1].ev = "send" /\ log[f - 1].kind = "unit"
       /\ log[f - 2].ev = "format"

C32_HandlerEntered ==
    \E j \in 1..Len(log) : log[j].ev = "resolve" /\ log[j].a = 2

\* C32: the summary query is called only in a fire step whose handler was not
\* entered; when the primary query fails, or the send of the progress notice
\* or of the single unit raises, the handler is entered at once, no query is
\* called after it, no completion is logged, and the only message sent after
\* the failure is the error embed of the primary query (none when the channel
\* is not found again).
C32_NoSummaryAfterFailure ==
    /\ (scheduled /\ Len(SelectSeq(log, LAMBDA e : e.ev = "query")) > 1)
          => ~C32_HandlerEntered
    /\ \A f \in 1..Len(log) :
          (log[f].t >= 1 /\ C32_PrimaryFailure(f)) =>
              LET t    == log[f].t
                  post == SubSeq(log, f + 1, Len(log))
              IN  /\ post # <<>>
                  /\ post[1].ev = "resolve" /\ post[1].a = 2
                  /\ \A j \in 1..Len(post) :
                        post[j].ev \notin {"query", "query_ret", "completed", "wait"}
                  /\ SendsOf(post) \in
                        {<<>>, <<EvSend("error", query_id, MsgUnderlying, t)>>}
                  /\ SendsOf(post) # <<>> <=> post[1].kind = "found"
                  /\ \A j \in 1..Len(log) :
                        log[j].ev = "send" => log[j].kind \notin {"sums", "sums_error"}

\* With a summary query configured, the send of the progress notice raised,
\* the error embed was sent and the fire step is over.
C32_Witness ==
    \E t \in TaskIds, f \in 1..Len(log) :
        /\ sums_query_id \in SumsIds
        /\ C32_PrimaryFailure(f)
        /\ log[f - 1].kind = "notice"
        /\ Len(log) = f + 3
        /\ log[Len(log)] = EvSendRet("ok", t)
        /\ tasks[t].pc = "loop"


\* ---------------------------------------------------------------------- C33
\* The step begins a fire step of task t.
C33_Begins(t) ==
    /\ tasks[t].pc = "woke"
    /\ running
    /\ tasks'[t] # tasks[t]

\* C33: last_execution is set to the current time at the start of every fire
\* step, whether the channel is found or not and whatever the query does
\* later: during and after a fire step last_execution is the time the step
\* began at, and once a fire step has begun last_execution is never None.
C33_LastFiredAtStart ==
    /\ [][\A t \in TaskIds :
             C33_Begins(t) =>
                 /\ last_execution' = now
                 /\ last_execution' # None
                 /\ log'[1].ev = "resolve" /\ log'[1].a = 1]_vars
    /\ [](fires >= 1 => last_execution # None)
    /\ []((scheduled /\ log # <<>>) =>
             /\ log[1].ev = "resolve" /\ log[1].a = 1
             /\ last_execution = now)

\* The second fire step was skipped because the channel was not found, and
\* last_execution is the time it began at.
C33_Witness ==
    \E t \in TaskIds :
        /\ fires = 2
        /\ last_execution = now
        /\ log = <<EvResolve(FALSE, 1, t)>>
        /\ tasks[t].pc = "loop"


\* ---------------------------------------------------------------------- C35
\* The /dune handler deferred the interaction and the call of the gateway is
\* over.
C35_Deferred ==
    /\ ~scheduled
    /\ cmd.name = "dune"
    /\ cmd.pc \notin {"idle", "defer", "query"}
    /\ log # <<>>
    /\ log[1].ev = "defer" /\ log[1].kind = "ok"

\* C35: every invocation of the /dune handler that deferred the interaction
\* attempts a follow-up on every path: as soon as the gateway call is over a
\* follow-up send is in progress or was made -- a result unit, the progress
\* notice, or an error embed for a Timeout, a Failure or any other exception
\* -- and a Timeout gets the embed of the Timeout clause, not the Failure one.
C35_AlwaysFollowsUp ==
    /\ C35_Deferred =>
          /\ SendsOf(log) # <<>>
          /\ SendsOf(log)[1].kind \in {"unit", "notice", "error"}
          /\ log[3].kind # "ok" =>
                SendsOf(log)[1] =
                    EvSend("error", cmd.qid,
                           CASE log[3].kind = "Timeout" -> MsgTimeoutHint
                             [] log[3].kind = "Failure" -> MsgUnderlying
                             [] OTHER                   -> MsgGeneric, 0)
          /\ (log[3].kind = "ok" /\ log[4].kind = "raise") =>
                SendsOf(log)[1] = EvSend("error", cmd.qid, MsgGeneric, 0)
    /\ (~scheduled /\ cmd.name = "dune" /\ cmd.pc \in {"done", "raised"}
           /\ SendsOf(log) = <<>>) =>
          log = <<Ev("defer", "raise", 0, 0, 0)>>

\* /dune ended after a gateway exception that is neither a Timeout nor a
\* Failure: the generic error embed was sent.
C35_Witness ==
    /\ C35_Deferred
    /\ cmd.pc = "done"
    /\ log[3].ev = "query_ret"
    /\ log[3].kind \notin {"ok", "Timeout", "Failure"}
    /\ SendsOf(log) = <<EvSend("error", cmd.qid, MsgGeneric, 0)>>


\* ---------------------------------------------------------------------- C36
\* The table text of the result at hand.
C36_TableText == FormatTable(result.rows, result.columns, DefaultMaxRows)

\* C36: the description of the embed format_query_result builds is at most
\* 4096 characters long, whether the table text fits (it is then fenced as it
\* is) or had to be truncated (the description then ends with the truncation
\* mark and the closing fence).
C36_DescriptionFits ==
    embeds # <<>> =>
        LET d == embeds[1].description IN
        /\ Len(d) <= MaxEmbedDescription
        /\ Len(result.rows) > 0 =>
              IF Len(C36_TableText) <= MaxEmbedDescription - 10
              THEN d = Fence \o "\n" \o C36_TableText \o "\n" \o Fence
              ELSE /\ SubSeq(d, 1, 100) = Fence \o "\n" \o SubSeq(C36_TableText, 1, 96)
                   /\ SubSeq(d, Len(d) - 21, Len(d)) = "...\n...(truncated)\n" \o Fence

\* A table text longer than the description allows was formatted.
C36_Witness ==
    /\ embeds # <<>>
    /\ Len(result.rows) > 0
    /\ Len(C36_TableText) > MaxEmbedDescription
    /\ Len(embeds[1].description) > MaxEmbedDescription - 10


\* ---------------------------------------------------------------------- C34
\* The task self._task names ended although stop() was never called on it
\* before it had finished: its loop ended in the `except Exception` clause.
C34_Crashed ==
    /\ task \in TaskIds
    /\ tasks[task].pc = "done"
    /\ ~tasks[task].stopped

\* The step ends task t at the loop head while the runner is running: the
\* exception clause ran.
C34_Raises(t) ==
    /\ tasks[t].pc = "loop"
    /\ running
    /\ tasks'[t].pc = "done"

\* C34: when the timer loop ends because of an exception raised at the loop
\* head, running is set to False; while the loop is ended this way get_status()
\* reports running "False"; and a start() after it is not treated as already
\* running: it makes a new task, which self._task names.
C34_ErrorClearsRunning ==
    /\ [][\A t \in TaskIds : C34_Raises(t) => ~running']_vars
    /\ [](C34_Crashed =>
             /\ ~running
             /\ StatusDict(Schedule, running).running = "False")
    /\ [][(C34_Crashed /\ running') =>
             /\ Len(tasks') = Len(tasks) + 1
             /\ task' = Len(tasks')
             /\ tasks'[task'] = NewTask]_vars

\* The first task ended in the exception clause, start() was called again and
\* the second task is waiting for its fire time.
C34_Witness ==
    /\ Len(tasks) = 2
    /\ tasks[1].pc = "done" /\ ~tasks[1].stopped
    /\ task = 2
    /\ running
    /\ tasks[2].pc = "sleep"


\* ---------------------------------------------------------------------- C31
\* The timer loops that are running: tasks that have not finished.
C31_Loops == { t \in TaskIds : tasks[t].pc # "done" }

\* The fire steps begun so far are no more than the scheduled instants the
\* clock has reached.
C31_OneFirePerInstant ==
    fires <= Cardinality({ x \in Instants : x <= now })

\* C31: across any sequence of ready events at most one timer loop is running
\* for the bot (an earlier runner is never left running next to a new one),
\* so a scheduled instant never produces two fire steps.
C31_OneLoopPerBot ==
    /\ Cardinality(C31_Loops) <= 1
    /\ C31_OneFirePerInstant

====
